---- MODULE Spec2Model ----
(***************************************************************************)
(* KomoCap (src/komocap.py): the recording pipeline (RecorderThread.run    *)
(* and RecorderThread.stop, with the ffmpeg child process as environment)  *)
(* the region selector (AreaSelector, _select_area_native, _AreaOverlay),   *)
(* the audio source probe (detect_audio_source) and the main window's      *)
(* recorder and capture modes (KomoCap).                                   *)
(*                                                                         *)
(* Python values: None is the empty tuple <<>> and a present value v is    *)
(* <<v>>; str is a TLA+ string; a list of str is a sequence of strings; a  *)
(* path or a tool's stdout that the code takes apart is a sequence of      *)
(* one-character strings.                                                  *)
(***************************************************************************)
EXTENDS Integers, Sequences, FiniteSets, TLC

VARIABLES
    \* ---- one RecorderThread session ----
    cfg,          \* RecorderThread.cfg, the dict given to __init__
    env,          \* what run() reads from the host: screen, DISPLAY, /dev/video0, audio probes
    wpc,          \* position of the worker thread inside run()
    upc,          \* position of the UI thread inside stop()
    proc,         \* self._proc: None (<<>>) or the Popen object (<<"Popen">>)
    popenExc,     \* the exception Popen raised, if it raised: <<>> or <<its class>>
    stopFlag,     \* self._stop (threading.Event)
    cmd,          \* the argument vector given to Popen (<<>> before it is built)
    final,        \* the output path run() derives, as characters (<<>> before it is built)
    child,        \* the encoder process: "none", "running", "blocked", "exited"
    returncode,   \* self._proc.returncode once the child has exited
    childErr,     \* the bytes the child has written to its stderr pipe, in order
    stderrBytes,  \* what run() read from the child's stderr
    quitWrites,   \* number of "q\n" commands that reached the child's stdin
    termSignals,  \* number of SIGTERMs sent by stop()
    fileExists,   \* os.path.exists(final)
    probeRuns,    \* number of detect_audio_source() runs (each spawns probe processes)
    spawns,       \* number of Popen calls made
    stops,        \* number of stop() calls made so far
    emitted,      \* the signals emitted, in order: [sig, arg]
    \* ---- one AreaSelector session ----
    tools,        \* which of slop / scrot shutil.which() finds
    spc,          \* position of the selection session
    nativeRect,   \* what _SlopThread.run passes to done.emit
    nativeLog,    \* which native tools _select_area_native ran, and slop's exit code
    ov,           \* the _AreaOverlay fields: _origin, _sel, _drag, _done
    ovEvents,     \* number of events delivered to the overlay
    lastEv,       \* the last event delivered to the overlay
    selOut,       \* the results the session produced, in order
    \* ---- one detect_audio_source() call ----
    audEnv,       \* the outcome each probe has when it is run
    apc,          \* position inside detect_audio_source
    audLog,       \* the probes run so far, in order
    audResult,    \* the value returned
    \* ---- the main window's recorder, over several start / stop requests ----
    recorder,     \* KomoCap.recorder: <<>> or <<index into threads>>
    threads,      \* the RecorderThread instances created so far, in order
    uiPc,         \* position of the UI thread: "idle" or inside recorder.stop()
    uiLog,        \* what each start / stop request did, in order
    \* ---- the main window's capture modes and stored areas ----
    ss_area_rect, \* KomoCap.ss_area_rect: None or the stored rectangle
    ss_mode,      \* KomoCap.ss_mode: "full", "area" or "window"
    rec_area_rect, \* KomoCap.rec_area_rect: None or the stored rectangle
    rec_mode_sel, \* KomoCap.rec_mode_sel: "full" or "area"
    selTarget,    \* the target of the selection session in progress, if any
    lastHandler   \* the handler of the main window that ran last

recVars == <<cfg, env, wpc, upc, proc, popenExc, stopFlag, cmd, final, child, returncode,
             childErr, stderrBytes, quitWrites, termSignals, fileExists, probeRuns, spawns,
             stops, emitted>>

selVars == <<tools, spc, nativeRect, nativeLog, ov, ovEvents, lastEv, selOut>>

audVars == <<audEnv, apc, audLog, audResult>>

uiVars == <<recorder, threads, uiPc, uiLog>>

modeVars == <<ss_area_rect, ss_mode, rec_area_rect, rec_mode_sel, selTarget, lastHandler>>

vars == <<recVars, selVars, audVars, uiVars, modeVars>>

\* What the steps of each part leave alone.
nonRecVars == <<selVars, audVars, uiVars, modeVars>>

nonSelVars == <<recVars, audVars, uiVars, modeVars>>

nonAudVars == <<recVars, selVars, uiVars, modeVars>>

nonUiVars == <<recVars, selVars, audVars, modeVars>>

nonModeVars == <<recVars, selVars, audVars, uiVars>>

\* Python's None and a present value.
None == <<>>

Some(v) == <<v>>

(***************************************************************************)
(* Bounds of the model.                                                    *)
(***************************************************************************)
\* stop() calls in one session.
MaxStops == 2

\* Pointer and key events delivered to one overlay.
MaxOverlayEvents == 4

\* Start and stop requests made to the main window.
MaxRequests == 4

(***************************************************************************)
(* str(int), as Python formats it.                                         *)
(***************************************************************************)
Digit(d) ==
    CASE d = 0 -> "0" [] d = 1 -> "1" [] d = 2 -> "2" [] d = 3 -> "3"
      [] d = 4 -> "4" [] d = 5 -> "5" [] d = 6 -> "6" [] d = 7 -> "7"
      [] d = 8 -> "8" [] d = 9 -> "9"

RECURSIVE StrNat(_)
StrNat(n) == IF n < 10 THEN Digit(n) ELSE StrNat(n \div 10) \o Digit(n % 10)

Str(n) == IF n < 0 THEN "-" \o StrNat(-n) ELSE StrNat(n)

\* A sequence of one-character strings as one string.
RECURSIVE Join(_)
Join(cs) == IF cs = <<>> THEN "" ELSE Head(cs) \o Join(Tail(cs))

(***************************************************************************)
(* QRect, as Qt 5 stores it: the two corners, both inclusive.              *)
(***************************************************************************)
QRectNull == [x1 |-> 0, y1 |-> 0, x2 |-> -1, y2 |-> -1]

QRectXYWH(x, y, w, h) == [x1 |-> x, y1 |-> y, x2 |-> x + w - 1, y2 |-> y + h - 1]

Width(r) == r.x2 - r.x1 + 1

Height(r) == r.y2 - r.y1 + 1

IsNull(r) == r.x2 = r.x1 - 1 /\ r.y2 = r.y1 - 1

\* bool(QRect) in PyQt5 is QRect.isValid().
IsValid(r) == r.x1 <= r.x2 /\ r.y1 <= r.y2

(***************************************************************************)
(* os.path.splitext (posixpath), on a path given as its characters.        *)
(***************************************************************************)
\* p.rfind(c), 1-based; 0 when c does not occur.
RFind(p, c) ==
    LET at == {i \in 1..Len(p) : p[i] = c}
    IN  IF at = {} THEN 0 ELSE CHOOSE i \in at : \A j \in at : j <= i

\* The root of splitext(p): the extension starts at the last dot of the last
\* component, unless that component has only dots before it.
SplitExtRoot(p) ==
    LET sepIndex == RFind(p, "/")
        dotIndex == RFind(p, ".")
    IN  IF dotIndex > sepIndex
           /\ \E k \in (sepIndex + 1)..(dotIndex - 1) : p[k] # "."
        THEN SubSeq(p, 1, dotIndex - 1)
        ELSE p

(***************************************************************************)
(* str methods, on a text given as its characters.                         *)
(***************************************************************************)
Whitespace == {" ", "\n", "\t"}

\* str.split() with no argument, cur being the token under construction.
RECURSIVE SplitFrom(_, _)
SplitFrom(cs, cur) ==
    IF cs = <<>>
    THEN IF cur = <<>> THEN <<>> ELSE <<cur>>
    ELSE IF Head(cs) \in Whitespace
         THEN (IF cur = <<>> THEN <<>> ELSE <<cur>>) \o SplitFrom(Tail(cs), <<>>)
         ELSE SplitFrom(Tail(cs), Append(cur, Head(cs)))

Split(cs) == SplitFrom(cs, <<>>)

\* str.strip() with no argument.
RECURSIVE LStrip(_)
LStrip(cs) ==
    IF cs # <<>> /\ Head(cs) \in Whitespace THEN LStrip(Tail(cs)) ELSE cs

RECURSIVE RStrip(_)
RStrip(cs) ==
    IF cs # <<>> /\ cs[Len(cs)] \in Whitespace
    THEN RStrip(SubSeq(cs, 1, Len(cs) - 1))
    ELSE cs

Strip(cs) == RStrip(LStrip(cs))

\* str.splitlines(), cur being the line under construction: a line ends at a
\* line break, and a break at the very end opens no further line.
RECURSIVE SplitLinesFrom(_, _)
SplitLinesFrom(cs, cur) ==
    IF cs = <<>>
    THEN IF cur = <<>> THEN <<>> ELSE <<cur>>
    ELSE IF Head(cs) = "\n"
         THEN <<cur>> \o SplitLinesFrom(Tail(cs), <<>>)
         ELSE SplitLinesFrom(Tail(cs), Append(cur, Head(cs)))

SplitLines(cs) == SplitLinesFrom(cs, <<>>)

\* str.lower(), one character.
LowerChar(c) ==
    CASE c = "A" -> "a" [] c = "B" -> "b" [] c = "C" -> "c" [] c = "D" -> "d"
      [] c = "E" -> "e" [] c = "F" -> "f" [] c = "G" -> "g" [] c = "H" -> "h"
      [] c = "I" -> "i" [] c = "J" -> "j" [] c = "K" -> "k" [] c = "L" -> "l"
      [] c = "M" -> "m" [] c = "N" -> "n" [] c = "O" -> "o" [] c = "P" -> "p"
      [] c = "Q" -> "q" [] c = "R" -> "r" [] c = "S" -> "s" [] c = "T" -> "t"
      [] c = "U" -> "u" [] c = "V" -> "v" [] c = "W" -> "w" [] c = "X" -> "x"
      [] c = "Y" -> "y" [] c = "Z" -> "z" [] OTHER -> c

Lower(cs) == [i \in 1..Len(cs) |-> LowerChar(cs[i])]

\* needle in cs
Contains(cs, needle) ==
    \E i \in 0..(Len(cs) - Len(needle)) :
        SubSeq(cs, i + 1, i + Len(needle)) = needle

(***************************************************************************)
(* detect_audio_source.  A probe outcome is <<>> when subprocess.run       *)
(* raised (binary missing, timeout), else <<[rc, out]>>.  The stdout of    *)
(* pactl is its characters; of pw-cli's stdout the code uses only whether  *)
(* it is non-blank; the stdout of arecord is its characters.               *)
(***************************************************************************)
Monitor == <<"m", "o", "n", "i", "t", "o", "r">>

\* Lines 274-276 alone.
PickSourceFirstLine(lines) ==
    IF Len(Split(lines[1])) >= 2 THEN Some(Split(lines[1])[2]) ELSE None

\* Lines 269-276 and 289-296, on the lines of pactl's stripped stdout: the
\* second field of the first line that does not contain "monitor" and has
\* two fields, else the second field of the first line; None when the code
\* goes on to "default".
PickSource(lines) ==
    LET good == {i \in 1..Len(lines) :
                    /\ ~Contains(Lower(lines[i]), Monitor)
                    /\ Len(Split(lines[i])) >= 2}
    IN  IF good # {}
        THEN Some(Split(lines[CHOOSE i \in good : \A j \in good : i <= j])[2])
        ELSE IF Len(Split(lines[1])) >= 2
             THEN Some(Split(lines[1])[2])
             ELSE None

\* Lines 267-276 and 287-296, without the "default" of lines 277 and 297.
PactlChoiceNoDefault(r) ==
    IF r.rc = 0 /\ Strip(r.out) # <<>>
    THEN LET picked == PickSource(SplitLines(Strip(r.out)))
         IN  Some(<<"pulse", IF picked # None THEN Join(picked[1]) ELSE "">>)
    ELSE None

\* Lines 267-277 and 287-297, for a pactl run that returned: None when the
\* condition on the run fails.
PactlChoice(r) ==
    IF r.rc = 0 /\ Strip(r.out) # <<>>
    THEN LET picked == PickSource(SplitLines(Strip(r.out)))
         IN  Some(<<"pulse", IF picked # None THEN Join(picked[1]) ELSE "default">>)
    ELSE None

\* Lines 254-279.
DetectStep1(a) ==
    IF a.pwcli # None /\ a.pwcli[1].rc = 0 /\ a.pwcli[1].out
    THEN IF a.pactl1 = None
         THEN None                                  \* raised inside the try
         ELSE IF PactlChoice(a.pactl1[1]) # None
              THEN PactlChoice(a.pactl1[1])
              ELSE Some(<<"pulse", "default">>)     \* line 277
    ELSE None

\* Lines 281-299.
DetectStep2(a) ==
    IF a.pactl2 # None THEN PactlChoice(a.pactl2[1]) ELSE None

DetectStep3(a) ==
    IF a.pacheck # None /\ a.pacheck[1].rc = 0
    THEN Some(<<"pulse", "default">>) ELSE None

Card == <<"c", "a", "r", "d">>

\* Lines 312-318.
DetectStep4(a) ==
    IF a.arecord # None /\ a.arecord[1].rc = 0 /\ Contains(a.arecord[1].out, Card)
    THEN Some(<<"alsa", "hw:0,0">>) ELSE None

detect_audio_source(a) ==
    IF DetectStep1(a) # None THEN DetectStep1(a)[1]
    ELSE IF DetectStep2(a) # None THEN DetectStep2(a)[1]
    ELSE IF DetectStep3(a) # None THEN DetectStep3(a)[1]
    ELSE IF DetectStep4(a) # None THEN DetectStep4(a)[1]
    ELSE <<"pulse", "default">>

(***************************************************************************)
(* RecorderThread.run, lines 632-713: geometry, validation, the command.   *)
(***************************************************************************)
\* QUALITY.get(qi, (18, "medium"))
QUALITYOffByOne(qi) ==
    CASE qi = 1 -> <<45, "ultrafast">>
      [] qi = 2 -> <<28, "fast">>
      [] qi = 3 -> <<18, "medium">>
      [] qi = 4 -> <<12, "slow">>
      [] OTHER  -> <<18, "medium">>

\* The table with another default than line 640's.
QUALITYDefaultFast(qi) ==
    CASE qi = 0 -> <<45, "ultrafast">>
      [] qi = 1 -> <<28, "fast">>
      [] qi = 2 -> <<18, "medium">>
      [] qi = 3 -> <<12, "slow">>
      [] qi = 4 -> <<0, "veryslow">>
      [] OTHER  -> <<28, "fast">>

QUALITY(qi) ==
    CASE qi = 0 -> <<45, "ultrafast">>
      [] qi = 1 -> <<28, "fast">>
      [] qi = 2 -> <<18, "medium">>
      [] qi = 3 -> <<12, "slow">>
      [] qi = 4 -> <<0, "veryslow">>
      [] OTHER  -> <<18, "medium">>

\* n & ~1
EvenDownOdd(n) == n

EvenDown(n) == n - (n % 2)

\* area and not area.isNull()
AreaGiven(area) == area # None /\ IsValid(area[1]) /\ ~IsNull(area[1])

\* x, y, w, h of lines 644-649.
Geometry(area, screen) ==
    IF AreaGiven(area)
    THEN [x |-> area[1].x1, y |-> area[1].y1,
          w |-> EvenDown(Width(area[1])), h |-> EvenDown(Height(area[1]))]
    ELSE [x |-> 0, y |-> 0,
          w |-> EvenDown(Width(screen)), h |-> EvenDown(Height(screen))]

\* Line 651.
TooSmall(w, h) == w < 2 \/ h < 2

\* Line 656.
ExtFromTier3(qi) == IF qi >= 3 THEN <<".", "m", "k", "v">> ELSE <<".", "m", "p", "4">>

Ext(qi) == IF qi = 4 THEN <<".", "m", "k", "v">> ELSE <<".", "m", "p", "4">>

\* Line 657, as characters.
FinalPath(out, qi) == SplitExtRoot(out) \o Ext(qi)

\* Lines 668-675: the audio input, and audio_idx.
AudioIdx(c) == IF c.audio THEN Some(1) ELSE None

\* Lines 672-675 with the pulse format for every driver.
AudioArgsPulseOnly(c, src) ==
    IF c.audio THEN <<"-f", "pulse", "-i", src[2]>> ELSE <<>>

AudioArgs(c, src) ==
    IF c.audio
    THEN IF src[1] = "pulse" THEN <<"-f", "pulse", "-i", src[2]>>
                             ELSE <<"-f", "alsa", "-i", src[2]>>
    ELSE <<>>

\* webcam_idx as the constant 1.
WebcamIdxAlwaysOne(c, e) ==
    IF c.webcam /\ e.camExists THEN Some(1) ELSE None

\* Lines 677-680: the webcam input, and webcam_idx ("if audio_idx" is the
\* truth of an int or None).
WebcamIdx(c, e) ==
    IF c.webcam /\ e.camExists
    THEN IF AudioIdx(c) # None /\ AudioIdx(c)[1] # 0
         THEN Some(AudioIdx(c)[1] + 1) ELSE Some(1)
    ELSE None

WebcamArgs(c, e) ==
    IF WebcamIdx(c, e) # None THEN <<"-f", "v4l2", "-i", "/dev/video0">> ELSE <<>>

SzMap(size) ==
    CASE size = "small" -> "240:180"
      [] size = "medium" -> "320:240"
      [] size = "large" -> "480:360"
      [] OTHER -> "240:180"

PosMap(pos) ==
    CASE pos = "bottom-right" -> "W-w-12:H-h-12"
      [] pos = "bottom-left" -> "12:H-h-12"
      [] pos = "top-right" -> "W-w-12:12"
      [] pos = "top-left" -> "12:12"
      [] OTHER -> "W-w-12:H-h-12"

\* Lines 683-699 with the test of line 683 made on the webcam request.
FilterArgsByRequest(c, e, g) ==
    IF c.webcam
    THEN <<"-filter_complex",
           "[1:v]scale=" \o SzMap(c.webcam_size)
               \o ",format=yuv420p[cam];[0:v][cam]overlay=" \o PosMap(c.webcam_pos)
               \o "[out]",
           "-map", "[out]">>
    ELSE <<"-vf", "scale=" \o Str(g.w) \o ":" \o Str(g.h)>>

\* Lines 683-699.
FilterArgs(c, e, g) ==
    IF WebcamIdx(c, e) # None
    THEN <<"-filter_complex",
           "[" \o Str(WebcamIdx(c, e)[1]) \o ":v]scale=" \o SzMap(c.webcam_size)
               \o ",format=yuv420p[cam];[0:v][cam]overlay=" \o PosMap(c.webcam_pos)
               \o "[out]",
           "-map", "[out]">>
         \o (IF AudioIdx(c) # None /\ AudioIdx(c)[1] # 0
             THEN <<"-map", Str(AudioIdx(c)[1]) \o ":a">> ELSE <<>>)
    ELSE <<"-vf", "scale=" \o Str(g.w) \o ":" \o Str(g.h)>>

\* Lines 702-711.
CodecArgs(c) ==
    <<"-c:v", "libx264", "-crf", Str(QUALITY(c.quality)[1]),
      "-preset", QUALITY(c.quality)[2], "-pix_fmt", "yuv420p",
      "-movflags", "+faststart">>
    \o (IF AudioIdx(c) # None /\ AudioIdx(c)[1] # 0
        THEN <<"-c:a", "aac", "-b:a", "192k", "-ac", "2", "-ar", "44100">>
        ELSE <<>>)

\* Lines 660-713: cmd, for the geometry g and the audio source src.
BuildCmd(c, e, g, src) ==
    <<"ffmpeg", "-y", "-f", "x11grab", "-r", Str(c.fps),
      "-s", Str(g.w) \o "x" \o Str(g.h),
      "-i", e.display \o "+" \o Str(g.x) \o "," \o Str(g.y)>>
    \o AudioArgs(c, src) \o WebcamArgs(c, e) \o FilterArgs(c, e, g)
    \o CodecArgs(c) \o <<Join(FinalPath(c.output, c.quality))>>

(***************************************************************************)
(* The inputs of a session: the cfg dict start_recording builds (lines     *)
(* 1816-1837) and what run() reads from the host.                          *)
(***************************************************************************)
Screens == {QRectXYWH(0, 0, 1920, 1080), QRectXYWH(0, 0, 1367, 769)}

\* None, or a rectangle a selection session can deliver: start_recording
\* passes rec_area_rect as _on_rec_area_done stored it (lines 1723-1724,
\* 1826).  The last one is the overlay's rectangle after a press at
\* (99, 100), a move to (99, 99) and Enter: width 1, height 0.
Areas ==
    {None, Some(QRectXYWH(100, 100, 201, 151)), Some(QRectXYWH(5, 7, 1, 50)),
     Some(QRectXYWH(0, 0, 50, 1)), Some(QRectXYWH(3, 4, 2, 3)),
     Some(QRectXYWH(99, 100, 1, 0))}

\* QComboBox.currentIndex(): -1 (no current item) or 0..4.
Qualities == -1..4

FpsValues == {30, 60}

\* "/r/a.mp4", "/r/a.mkv", "/r.d/a": with either extension, and without one
\* below a directory whose name has a dot.
Outputs ==
    {<<"/", "r", "/", "a", ".", "m", "p", "4">>,
     <<"/", "r", "/", "a", ".", "m", "k", "v">>,
     <<"/", "r", ".", "d", "/", "a">>}

Displays == {":0", ":1"}

WebcamSettings ==
    {[webcam |-> FALSE, webcam_pos |-> "bottom-right", webcam_size |-> "small"],
     [webcam |-> TRUE, webcam_pos |-> "bottom-right", webcam_size |-> "small"],
     [webcam |-> TRUE, webcam_pos |-> "top-left", webcam_size |-> "large"]}

MonitorLine ==
    <<"0", "\t", "a", "l", "s", "a", "_", "o", "u", "t", "p", "u",
      "t", ".", "m", "o", "n", "i", "t", "o", "r", "\t", "P", "i",
      "p", "e", "W", "i", "r", "e">>

UsbLine ==
    <<"1", "\t", "a", "l", "s", "a", "_", "i", "n", "p", "u", "t",
      ".", "u", "s", "b", "\t", "P", "i", "p", "e", "W", "i", "r",
      "e">>

\* A stdout of the given lines, each ended by a line break.
RECURSIVE Stdout(_)
Stdout(lines) ==
    IF lines = <<>> THEN <<>> ELSE Head(lines) \o <<"\n">> \o Stdout(Tail(lines))

\* The stdout of "arecord -l" for the capture devices devs, each [card,
\* device] (one digit each): the heading, then a line for each device.
ArecordHeading ==
    <<"*", "*", "*", "*", " ", "L", "i", "s", "t", " ", "o", "f",
      " ", "C", "A", "P", "T", "U", "R", "E", " ", "H", "a", "r",
      "d", "w", "a", "r", "e", " ", "D", "e", "v", "i", "c", "e",
      "s", " ", "*", "*", "*", "*", "\n">>

ArecordLine(d) ==
    <<"c", "a", "r", "d", " ", Digit(d.card)>>
    \o <<":", " ", "U", "S", "B", " ", "[", "U", "S", "B", " ", "A",
      "u", "d", "i", "o", "]", ",", " ", "d", "e", "v", "i", "c",
      "e", " ">>
    \o <<Digit(d.device)>>
    \o <<":", " ", "U", "S", "B", " ", "A", "u", "d", "i", "o", " ",
      "[", "U", "S", "B", " ", "A", "u", "d", "i", "o", "]", "\n">>

RECURSIVE ArecordLines(_)
ArecordLines(devs) ==
    IF devs = <<>> THEN <<>> ELSE ArecordLine(Head(devs)) \o ArecordLines(Tail(devs))

ArecordStdout(devs) == ArecordHeading \o ArecordLines(devs)

\* No probe answers: every subprocess.run raises.
NoAudioStack ==
    [pwcli |-> None, pactl1 |-> None, pactl2 |-> None, pacheck |-> None,
     arecord |-> None]

\* Probe outcomes that lead to each kind of result.
AudioEnvs ==
    {NoAudioStack,
     [NoAudioStack EXCEPT !.pwcli = Some([rc |-> 0, out |-> TRUE]),
                          !.pactl1 = Some([rc |-> 0,
                                           out |-> Stdout(<<MonitorLine, UsbLine>>)])],
     [NoAudioStack EXCEPT
        !.arecord = Some([rc |-> 0,
                          out |-> ArecordStdout(<<[card |-> 0, device |-> 0]>>)])]}

BuildInputs ==
    {[cfg |-> [area |-> a, fps |-> f, quality |-> q, audio |-> au,
               webcam |-> wc.webcam, webcam_pos |-> wc.webcam_pos,
               webcam_size |-> wc.webcam_size, output |-> o],
      env |-> [screen |-> s, display |-> d, camExists |-> cam, audio |-> ae]] :
        a \in Areas, f \in FpsValues, q \in Qualities, au \in BOOLEAN,
        wc \in WebcamSettings, o \in Outputs, s \in Screens, d \in Displays,
        cam \in BOOLEAN, ae \in AudioEnvs}

\* Without audio the probes are not run, and without a webcam request
\* /dev/video0 is not looked at: one environment stands for all.
RelevantInput(i) ==
    /\ (~i.cfg.audio => i.env.audio = NoAudioStack)
    /\ (~i.cfg.webcam => i.env.camExists)

\* The sessions whose whole life is explored with stop() and every child.
SessionInputs ==
    {i \in BuildInputs :
        /\ RelevantInput(i)
        /\ i.cfg.fps = 30 /\ i.cfg.quality \in {2, 4}
        /\ i.cfg.area \in {None, Some(QRectXYWH(5, 7, 1, 50))}
        /\ ~i.cfg.audio /\ ~i.cfg.webcam
        /\ i.cfg.output = <<"/", "r", "/", "a", ".", "m", "p", "4">>
        /\ i.env.screen = QRectXYWH(0, 0, 1920, 1080) /\ i.env.display = ":0"}

RetCodesQuit == {0, 1}

RetCodesTerm == {255, -15}

(***************************************************************************)
(* Bytes, as runs: a bytes value is a sequence of [ch, n], n >= 1 times    *)
(* the byte ch.  All bytes are ASCII, which decode() leaves as they are.   *)
(***************************************************************************)
RECURSIVE BytesLen(_)
BytesLen(b) == IF b = <<>> THEN 0 ELSE Head(b).n + BytesLen(Tail(b))

\* b[:k]
RECURSIVE FirstBytes(_, _)
FirstBytes(b, k) ==
    IF b = <<>> \/ k <= 0 THEN <<>>
    ELSE IF Head(b).n <= k
         THEN <<Head(b)>> \o FirstBytes(Tail(b), k - Head(b).n)
         ELSE <<[ch |-> Head(b).ch, n |-> k]>>

\* b[-k:] for k > 0
RECURSIVE LastBytes(_, _)
LastBytes(b, k) ==
    IF b = <<>> \/ k <= 0 THEN <<>>
    ELSE LET last == b[Len(b)]
         IN  IF last.n <= k
             THEN LastBytes(SubSeq(b, 1, Len(b) - 1), k - last.n) \o <<last>>
             ELSE <<[ch |-> last.ch, n |-> k]>>

\* The str of n times the character ch, and of a bytes value.
RECURSIVE Repeat(_, _)
Repeat(ch, n) ==
    IF n = 0 THEN ""
    ELSE LET half == Repeat(ch, n \div 2)
         IN  IF n % 2 = 0 THEN half \o half ELSE half \o half \o ch

RECURSIVE Decode(_)
Decode(b) == IF b = <<>> THEN "" ELSE Repeat(Head(b).ch, Head(b).n) \o Decode(Tail(b))

\* The bytes of a text given as its characters.
Bytes(cs) == [i \in 1..Len(cs) |-> [ch |-> cs[i], n |-> 1]]

\* stderr.read(3000), line 728.
ReadLimit == 3000

\* [-600:], line 737.
TailLen == 600

\* What a Linux pipe holds before a write to it blocks (stderr = PIPE, line 721).
PipeCapacity == 65536

ConversionFailed ==
    Bytes(<<"C", "o", "n", "v", "e", "r", "s", "i", "o", "n", " ", "f", "a", "i", "l",
            "e", "d", "!", "\n">>)

\* What an encoder writes to its stderr over its life: the last message
\* alone; the log and progress lines of a recording (3,500 bytes) and then
\* the last message; more progress lines than the pipe holds.
ErrOutputs ==
    {ConversionFailed,
     <<[ch |-> ".", n |-> 3500]>> \o ConversionFailed,
     <<[ch |-> ".", n |-> PipeCapacity + 1]>>}

(***************************************************************************)
(* The signals of RecorderThread.                                          *)
(***************************************************************************)
Emit(sig, arg) == Append(emitted, [sig |-> sig, arg |-> arg])

IsTerminal(e) == e.sig \in {"sig_done", "sig_error"}

Terminals == Cardinality({i \in 1..Len(emitted) : IsTerminal(emitted[i])})

(***************************************************************************)
(* RecorderThread.run, on the worker thread.                               *)
(***************************************************************************)
\* Lines 631-713: validation, the audio probe, the command.
RunBuild ==
    /\ wpc = "start"
    /\ LET g == Geometry(cfg.area, env.screen)
       IN  IF TooSmall(g.w, g.h)
           THEN /\ emitted' = Emit("sig_error", "Selected area is too small.")
                /\ wpc' = "done"
                /\ UNCHANGED <<cmd, final, probeRuns>>
           ELSE /\ probeRuns' = probeRuns + (IF cfg.audio THEN 1 ELSE 0)
                /\ cmd' = BuildCmd(cfg, env, g,
                                   IF cfg.audio THEN detect_audio_source(env.audio)
                                                ELSE <<"", "">>)
                /\ final' = FinalPath(cfg.output, cfg.quality)
                /\ wpc' = "spawn"
                /\ UNCHANGED emitted
    /\ UNCHANGED nonRecVars
    /\ UNCHANGED <<cfg, env, childErr, popenExc, upc, proc, stopFlag, child, returncode, stderrBytes,
                   quitWrites, termSignals, fileExists, spawns, stops>>

\* Lines 716-742 with line 723 moved in front of the Popen call: the status
\* is emitted whether or not the spawn succeeds.
RunSpawnStatusFirst ==
    /\ wpc = "spawn"
    /\ spawns' = spawns + 1
    /\ \/ /\ proc' = Some("Popen")
          /\ child' = "running"
          /\ wpc' = "emit"
          /\ UNCHANGED <<emitted, popenExc>>
       \/ /\ popenExc' = Some("FileNotFoundError")
          /\ emitted' = Append(Emit("sig_status", "RECORDING"),
                               [sig |-> "sig_error",
                                arg |-> "ffmpeg not found.\n  sudo apt install ffmpeg"])
          /\ wpc' = "done"
          /\ UNCHANGED <<proc, child>>
       \/ /\ popenExc' = Some("PermissionError")
          /\ emitted' = Emit("sig_error", "Error: [Errno 13] Permission denied: 'ffmpeg'")
          /\ wpc' = "done"
          /\ UNCHANGED <<proc, child>>
    /\ UNCHANGED nonRecVars
    /\ UNCHANGED <<cfg, env, childErr, upc, stopFlag, cmd, final, returncode, stderrBytes,
                   quitWrites, termSignals, fileExists, probeRuns, stops>>

\* Lines 739-742 with the handler of lines 739-740 left out: the missing
\* binary is reported by the handler of lines 741-742.
RunSpawnOneHandler ==
    /\ wpc = "spawn"
    /\ spawns' = spawns + 1
    /\ \/ /\ proc' = Some("Popen")
          /\ child' = "running"
          /\ wpc' = "emit"
          /\ UNCHANGED <<emitted, popenExc>>
       \/ /\ popenExc' = Some("FileNotFoundError")
          /\ emitted' = Emit("sig_error",
                             "Error: [Errno 2] No such file or directory: 'ffmpeg'")
          /\ wpc' = "done"
          /\ UNCHANGED <<proc, child>>
       \/ /\ popenExc' = Some("PermissionError")
          /\ emitted' = Emit("sig_error", "Error: [Errno 13] Permission denied: 'ffmpeg'")
          /\ wpc' = "done"
          /\ UNCHANGED <<proc, child>>
    /\ UNCHANGED nonRecVars
    /\ UNCHANGED <<cfg, env, childErr, upc, stopFlag, cmd, final, returncode, stderrBytes,
                   quitWrites, termSignals, fileExists, probeRuns, stops>>

\* Lines 716-722 and 739-742: Popen returns, or raises because no ffmpeg is
\* on the PATH, or raises for another reason (an ffmpeg that may not be run).
RunSpawn ==
    /\ wpc = "spawn"
    /\ spawns' = spawns + 1
    /\ \/ /\ proc' = Some("Popen")
          /\ child' = "running"
          /\ wpc' = "emit"
          /\ UNCHANGED <<emitted, popenExc>>
       \/ /\ popenExc' = Some("FileNotFoundError")
          /\ emitted' = Emit("sig_error", "ffmpeg not found.\n  sudo apt install ffmpeg")
          /\ wpc' = "done"
          /\ UNCHANGED <<proc, child>>
       \/ /\ popenExc' = Some("PermissionError")
          /\ emitted' = Emit("sig_error", "Error: [Errno 13] Permission denied: 'ffmpeg'")
          /\ wpc' = "done"
          /\ UNCHANGED <<proc, child>>
    /\ UNCHANGED nonRecVars
    /\ UNCHANGED <<cfg, env, childErr, upc, stopFlag, cmd, final, returncode, stderrBytes,
                   quitWrites, termSignals, fileExists, probeRuns, stops>>

\* Line 723.
RunEmitRecording ==
    /\ wpc = "emit"
    /\ emitted' = Emit("sig_status", "RECORDING")
    /\ wpc' = "wait"
    /\ UNCHANGED nonRecVars
    /\ UNCHANGED <<cfg, env, childErr, popenExc, upc, proc, stopFlag, cmd, final, child, returncode,
                   stderrBytes, quitWrites, termSignals, fileExists, probeRuns,
                   spawns, stops>>

\* Lines 724-730: wait() returns once the child has exited; then read(3000)
\* takes the first 3000 bytes of the pipe, or all of them if there are fewer.
RunWait ==
    /\ wpc = "wait"
    /\ child = "exited"
    /\ stderrBytes' = FirstBytes(childErr, ReadLimit)
    /\ wpc' = "check"
    /\ UNCHANGED nonRecVars
    /\ UNCHANGED <<cfg, env, childErr, popenExc, upc, proc, stopFlag, cmd, final, child, returncode,
                   quitWrites, termSignals, fileExists, probeRuns, spawns, stops,
                   emitted>>

\* Line 732.
SuccessFileOnly(stop, exists) == exists

Success(stop, exists) == stop \/ exists

\* Lines 732-738 with nothing reported for a session that was stopped.
RunCheckSilentWhenStopped ==
    /\ wpc = "check"
    /\ emitted' =
          IF stopFlag THEN emitted
          ELSE IF fileExists
          THEN Emit("sig_done", Join(final))
          ELSE Emit("sig_error",
                    "Recording failed (exit " \o Str(returncode[1]) \o ").\n"
                        \o Decode(LastBytes(stderrBytes, TailLen)))
    /\ wpc' = "done"
    /\ UNCHANGED nonRecVars
    /\ UNCHANGED <<cfg, env, childErr, popenExc, upc, proc, stopFlag, cmd, final, child,
                   returncode, stderrBytes, quitWrites, termSignals, fileExists,
                   probeRuns, spawns, stops>>

\* Lines 732-738.
RunCheck ==
    /\ wpc = "check"
    /\ emitted' =
          IF Success(stopFlag, fileExists)
          THEN Emit("sig_done", Join(final))
          ELSE Emit("sig_error",
                    "Recording failed (exit " \o Str(returncode[1]) \o ").\n"
                        \o Decode(LastBytes(stderrBytes, TailLen)))
    /\ wpc' = "done"
    /\ UNCHANGED nonRecVars
    /\ UNCHANGED <<cfg, env, childErr, popenExc, upc, proc, stopFlag, cmd, final, child, returncode,
                   stderrBytes, quitWrites, termSignals, fileExists, probeRuns,
                   spawns, stops>>

(***************************************************************************)
(* RecorderThread.stop, on the UI thread (KomoCap.stop_recording calls it  *)
(* and returns only when it has returned).                                 *)
(***************************************************************************)
\* stop() entered without line 745.
StopCallFlagUnset ==
    /\ upc = "idle"
    /\ wpc # "parked"
    /\ stops < MaxStops
    /\ stopFlag' = stopFlag
    /\ stops' = stops + 1
    /\ upc' = "stop_check"
    /\ UNCHANGED nonRecVars
    /\ UNCHANGED <<cfg, env, childErr, popenExc, wpc, proc, cmd, final, child, returncode,
                   stderrBytes, quitWrites, termSignals, fileExists, probeRuns,
                   spawns, emitted>>

\* Line 745.
StopCall ==
    /\ upc = "idle"
    /\ wpc # "parked"
    /\ stops < MaxStops
    /\ stopFlag' = TRUE
    /\ stops' = stops + 1
    /\ upc' = "stop_check"
    /\ UNCHANGED nonRecVars
    /\ UNCHANGED <<cfg, env, childErr, popenExc, wpc, proc, cmd, final, child, returncode, stderrBytes,
                   quitWrites, termSignals, fileExists, probeRuns, spawns, emitted>>

\* Line 746: self._proc and self._proc.poll() is None.
StopCheck ==
    /\ upc = "stop_check"
    /\ upc' = IF proc # None /\ child # "exited" THEN "stop_write" ELSE "idle"
    /\ UNCHANGED nonRecVars
    /\ UNCHANGED <<cfg, env, childErr, popenExc, wpc, proc, stopFlag, cmd, final, child, returncode,
                   stderrBytes, quitWrites, termSignals, fileExists, probeRuns,
                   spawns, stops, emitted>>

\* Lines 747-751: "q\n" goes into the child's stdin; writing to a child that
\* has exited raises, which is swallowed.
StopWrite ==
    /\ upc = "stop_write"
    /\ quitWrites' = IF child # "exited" THEN quitWrites + 1 ELSE quitWrites
    /\ upc' = "stop_wait"
    /\ UNCHANGED nonRecVars
    /\ UNCHANGED <<cfg, env, childErr, popenExc, wpc, proc, stopFlag, cmd, final, child, returncode,
                   stderrBytes, termSignals, fileExists, probeRuns, spawns, stops,
                   emitted>>

\* Lines 752-753: the child exits within the 5 s.
StopWaitExitedEmits ==
    /\ upc = "stop_wait"
    /\ child = "exited"
    /\ upc' = "idle"
    /\ emitted' = Emit("sig_done", Join(final))
    /\ UNCHANGED nonRecVars
    /\ UNCHANGED <<cfg, env, childErr, popenExc, wpc, proc, stopFlag, cmd, final, child, returncode,
                   stderrBytes, quitWrites, termSignals, fileExists, probeRuns,
                   spawns, stops>>

StopWaitExited ==
    /\ upc = "stop_wait"
    /\ child = "exited"
    /\ upc' = "idle"
    /\ UNCHANGED nonRecVars
    /\ UNCHANGED <<cfg, env, childErr, popenExc, wpc, proc, stopFlag, cmd, final, child, returncode,
                   stderrBytes, quitWrites, termSignals, fileExists, probeRuns,
                   spawns, stops, emitted>>

\* Lines 754-755: TimeoutExpired, then terminate() sends SIGTERM.
StopWaitTimeout ==
    /\ upc = "stop_wait"
    /\ child # "exited"
    /\ termSignals' = termSignals + 1
    /\ upc' = "idle"
    /\ UNCHANGED nonRecVars
    /\ UNCHANGED <<cfg, env, childErr, popenExc, wpc, proc, stopFlag, cmd, final, child, returncode,
                   stderrBytes, quitWrites, fileExists, probeRuns, spawns, stops,
                   emitted>>

(***************************************************************************)
(* The child process (ffmpeg), started by line 717.  It reads "q" from     *)
(* its stdin and handles SIGTERM in its main loop; a child that is blocked *)
(* (on a device, or on a pipe nobody reads) does neither.                  *)
(***************************************************************************)
ChildCreatesOutput ==
    /\ child = "running"
    /\ ~fileExists
    /\ fileExists' = TRUE
    /\ UNCHANGED nonRecVars
    /\ UNCHANGED <<cfg, env, childErr, popenExc, wpc, upc, proc, stopFlag, cmd, final, child,
                   returncode, stderrBytes, quitWrites, termSignals, probeRuns,
                   spawns, stops, emitted>>

\* The encoder writes to its stderr (one step for all it writes over its
\* life).  Nothing reads the pipe while the child runs (line 728 comes after
\* line 724), so a write of more than the pipe holds fills it and blocks.
ChildWrites ==
    /\ child = "running"
    /\ childErr = <<>>
    /\ \E o \in ErrOutputs :
          /\ childErr' = FirstBytes(o, PipeCapacity)
          /\ child' = IF BytesLen(o) > PipeCapacity THEN "blocked" ELSE "running"
    /\ UNCHANGED nonRecVars
    /\ UNCHANGED <<cfg, env, popenExc, wpc, upc, proc, stopFlag, cmd, final, returncode,
                   stderrBytes, quitWrites, termSignals, fileExists, probeRuns,
                   spawns, stops, emitted>>

ChildExit(rc) ==
    /\ child' = "exited"
    /\ returncode' = Some(rc)
    /\ UNCHANGED nonRecVars
    /\ UNCHANGED <<cfg, env, childErr, popenExc, wpc, upc, proc, stopFlag, cmd, final, stderrBytes,
                   quitWrites, termSignals, fileExists, probeRuns, spawns, stops,
                   emitted>>

\* The encoder gives up by itself (an input cannot be opened, a crash).
ChildFails ==
    /\ child = "running"
    /\ ChildExit(1)

\* The encoder obeys the quit command.
ChildQuits ==
    /\ child = "running"
    /\ quitWrites > 0
    /\ \E rc \in RetCodesQuit : ChildExit(rc)

\* The encoder ends on SIGTERM (its handler's exit code, or the signal's).
ChildTerminated ==
    /\ child = "running"
    /\ termSignals > 0
    /\ \E rc \in RetCodesTerm : ChildExit(rc)

ChildBlocks ==
    /\ child = "running"
    /\ child' = "blocked"
    /\ UNCHANGED nonRecVars
    /\ UNCHANGED <<cfg, env, childErr, popenExc, wpc, upc, proc, stopFlag, cmd, final, returncode,
                   stderrBytes, quitWrites, termSignals, fileExists, probeRuns,
                   spawns, stops, emitted>>

(***************************************************************************)
(* Specifications of the recording session.                                *)
(***************************************************************************)
InitRecorder(inputs) ==
    /\ \E i \in inputs : cfg = i.cfg /\ env = i.env
    /\ wpc = "start"
    /\ upc = "idle"
    /\ proc = None
    /\ popenExc = None
    /\ stopFlag = FALSE
    /\ cmd = <<>>
    /\ final = <<>>
    /\ child = "none"
    /\ returncode = None
    /\ childErr = <<>>
    /\ stderrBytes = <<>>
    /\ quitWrites = 0
    /\ termSignals = 0
    /\ fileExists = FALSE
    /\ probeRuns = 0
    /\ spawns = 0
    /\ stops = 0
    /\ emitted = <<>>

\* No selection session.
SelectorParked ==
    /\ tools = [slop |-> FALSE, scrot |-> FALSE]
    /\ spc = "parked"
    /\ nativeRect = None
    /\ nativeLog = <<>>
    /\ ov = [origin |-> [x |-> 0, y |-> 0], sel |-> QRectNull, drag |-> FALSE,
             done |-> FALSE]
    /\ ovEvents = 0
    /\ lastEv = None
    /\ selOut = <<>>

\* No detect_audio_source() call of its own.
AudioParked ==
    /\ audEnv = NoAudioStack
    /\ apc = "parked"
    /\ audLog = <<>>
    /\ audResult = None

\* No main window.
UiParked ==
    /\ recorder = None
    /\ threads = <<>>
    /\ uiPc = "parked"
    /\ uiLog = <<>>

\* The main window as __init__ leaves it (lines 915-918), no selection
\* session open.
ModeParked ==
    /\ ss_area_rect = None
    /\ ss_mode = "full"
    /\ rec_area_rect = None
    /\ rec_mode_sel = "full"
    /\ selTarget = None
    /\ lastHandler = "__init__"

\* A step of run().
Worker == RunBuild \/ RunSpawn \/ RunEmitRecording \/ RunWait \/ RunCheck

Init ==
    /\ InitRecorder(SessionInputs)
    /\ SelectorParked /\ AudioParked /\ UiParked /\ ModeParked

Next ==
    \/ RunBuild \/ RunSpawn \/ RunEmitRecording \/ RunWait \/ RunCheck
    \/ StopCall \/ StopCheck \/ StopWrite \/ StopWaitExited \/ StopWaitTimeout
    \/ ChildCreatesOutput \/ ChildWrites \/ ChildFails \/ ChildQuits
    \/ ChildTerminated \/ ChildBlocks

\* One session, with stop() called at any time and every behaviour of the child.
Spec == Init /\ [][Next]_vars

InitBuild ==
    /\ InitRecorder({i \in BuildInputs : RelevantInput(i)})
    /\ SelectorParked /\ AudioParked /\ UiParked /\ ModeParked

NextBuild ==
    \/ RunBuild \/ RunSpawn \/ RunEmitRecording \/ RunWait \/ RunCheck
    \/ ChildCreatesOutput \/ ChildFails

\* Every configuration, in sessions that end without a stop request.
SpecBuild == InitBuild /\ [][NextBuild]_vars

(***************************************************************************)
(* Properties of the recording session.                                    *)
(***************************************************************************)
\* The argument that follows the first occurrence of flag in the vector c.
ArgAfter(c, flag) ==
    c[(CHOOSE i \in 1..Len(c) : c[i] = flag /\ \A j \in 1..(i - 1) : c[j] # flag) + 1]

HasArg(c, flag) == \E i \in 1..Len(c) : c[i] = flag

EndsWith(p, suffix) ==
    Len(p) >= Len(suffix) /\ SubSeq(p, Len(p) - Len(suffix) + 1, Len(p)) = suffix

LastEmitted == emitted[Len(emitted)]

\* C1: once stop() has been called twice in a session, the session has
\* produced at most one terminal notification (sig_done or sig_error), and
\* exactly one when run() has returned; never two.
C1_TwoStopsOneTerminal ==
    stops >= 2 => (Terminals <= 1 /\ (wpc = "done" => Terminals = 1))

\* Two stop() calls that both found the child alive and wrote the quit
\* command, in a session that has ended.
C1_Witness ==
    /\ stops = 2 /\ upc = "idle" /\ quitWrites = 2
    /\ wpc = "done" /\ Terminals = 1

\* C2: after stop() has found the child still running at the end of the
\* graceful-stop wait and has issued the forced termination, the session
\* reaches a terminal state: sig_done or sig_error has been emitted, or the
\* step that leads there (the child exiting, run() going on) can still occur.
C2_TerminalAfterForcedTermination ==
    termSignals > 0 =>
        \/ Terminals = 1
        \/ ENABLED (Worker \/ ChildFails \/ ChildQuits \/ ChildTerminated)

\* C3: when run() decides the outcome after the child has exited, it emits
\* sig_done with the final path exactly when the cancellation flag is set or
\* the output file exists, whatever the exit code; otherwise it emits
\* sig_error with a message that carries the exit code.
C3_FinishedIffStoppedOrFileExists ==
    [][(wpc = "check" /\ wpc' = "done") =>
          /\ Len(emitted') = Len(emitted) + 1
          /\ IF stopFlag \/ fileExists
             THEN emitted'[Len(emitted')] = [sig |-> "sig_done", arg |-> Join(final)]
             ELSE \E t \in {"", "Conversion failed!\n", Repeat(".", 600)} :
                     emitted'[Len(emitted')] =
                        [sig |-> "sig_error",
                         arg |-> "Recording failed (exit " \o Str(returncode[1])
                                    \o ").\n" \o t]]_vars

\* A graceful stop after which the child exited non-zero with the file
\* present, reported as finished.
C3_Witness ==
    /\ wpc = "done" /\ quitWrites > 0 /\ fileExists
    /\ returncode = Some(1)
    /\ LastEmitted = [sig |-> "sig_done", arg |-> Join(final)]

\* C4: for every region whose width or height is < 2, run() reports the
\* validation error and spawns nothing, neither the encoder nor an audio probe.
C4_TooSmallNothingSpawned ==
    (cfg.area # None /\ (Width(cfg.area[1]) < 2 \/ Height(cfg.area[1]) < 2)) =>
        /\ spawns = 0 /\ probeRuns = 0 /\ child = "none" /\ cmd = <<>>
        /\ wpc \in {"start", "done"}
        /\ (wpc = "done" =>
               emitted = <<[sig |-> "sig_error", arg |-> "Selected area is too small."]>>)

\* The sizes within one pixel of n.
NearBy(n) == (n - 1)..(n + 1)

\* C5: with region = null, the width and height in the encoder command (the
\* input size, and the scale filter when there is one) are the screen's, each
\* rounded down to the nearest even number; they are never odd.
C5_FullScreenEvenSize ==
    (cfg.area = None /\ cmd # <<>>) =>
        LET w == 2 * (Width(env.screen) \div 2)
            h == 2 * (Height(env.screen) \div 2)
            size == ArgAfter(cmd, "-s")
        IN  /\ size = Str(w) \o "x" \o Str(h)
            /\ HasArg(cmd, "-vf") =>
                  ArgAfter(cmd, "-vf") = "scale=" \o Str(w) \o ":" \o Str(h)
            /\ \A odd \in {n \in NearBy(Width(env.screen)) : n % 2 = 1},
                  any \in NearBy(Height(env.screen)) :
                  size # Str(odd) \o "x" \o Str(any)
            /\ \A odd \in {n \in NearBy(Height(env.screen)) : n % 2 = 1},
                  any \in NearBy(Width(env.screen)) :
                  size # Str(any) \o "x" \o Str(odd)

\* A full-screen command built on a screen of odd width and height.
C5_Witness ==
    /\ cfg.area = None /\ cmd # <<>>
    /\ Width(env.screen) = 1367 /\ Height(env.screen) = 769

\* The configuration of C6.
C6_Config ==
    /\ cfg.area = None /\ cfg.fps = 30 /\ cfg.quality = 2
    /\ ~cfg.audio /\ ~cfg.webcam
    /\ Width(env.screen) = 1920 /\ Height(env.screen) = 1080

\* C6: region = null, fps = 30, quality = 2, no audio, no webcam on a
\* 1920x1080 screen gives input resolution "1920x1080", compression factor 18
\* with preset "medium", and an output path ending in .mp4, not .mkv.
C6_Scenario ==
    (C6_Config /\ cmd # <<>>) =>
        /\ ArgAfter(cmd, "-s") = "1920x1080"
        /\ ArgAfter(cmd, "-crf") = "18"
        /\ ArgAfter(cmd, "-preset") = "medium"
        /\ cmd[Len(cmd)] = Join(final)
        /\ EndsWith(final, <<".", "m", "p", "4">>)
        /\ ~EndsWith(final, <<".", "m", "k", "v">>)

\* That configuration with a supplied path ending in .mkv, once spawned.
C6_Witness ==
    /\ C6_Config /\ spawns = 1
    /\ EndsWith(cfg.output, <<".", "m", "k", "v">>)

\* C7: the output path ends in .mkv if and only if the quality tier is 4,
\* and in .mp4 for every other tier, whatever the region, fps, audio, webcam
\* and the extension of the supplied path.
C7_LosslessIffTier4 ==
    cmd # <<>> =>
        /\ cmd[Len(cmd)] = Join(final)
        /\ EndsWith(final, <<".", "m", "k", "v">>) <=> (cfg.quality = 4)
        /\ EndsWith(final, <<".", "m", "p", "4">>) <=> (cfg.quality # 4)

\* Tier 4 with a supplied .mp4 path, audio and a webcam: the path ends in .mkv.
C7_Witness ==
    /\ cfg.quality = 4 /\ cfg.audio /\ cfg.webcam /\ cfg.area # None
    /\ EndsWith(cfg.output, <<".", "m", "p", "4">>)
    /\ EndsWith(final, <<".", "m", "k", "v">>)

(***************************************************************************)
(* _select_area_native, lines 329-387.  A tool's outcome is None when      *)
(* subprocess.run (or, for scrot, reading the image) raised, e.g. on the   *)
(* 60 s timeout; else what the tool returned.                              *)
(***************************************************************************)
DigitChars == {"0", "1", "2", "3", "4", "5", "6", "7", "8", "9"}

DigitVal(c) ==
    CASE c = "0" -> 0 [] c = "1" -> 1 [] c = "2" -> 2 [] c = "3" -> 3
      [] c = "4" -> 4 [] c = "5" -> 5 [] c = "6" -> 6 [] c = "7" -> 7
      [] c = "8" -> 8 [] c = "9" -> 9

RECURSIVE DigitsVal(_, _)
DigitsVal(ds, acc) ==
    IF ds = <<>> THEN acc ELSE DigitsVal(Tail(ds), 10 * acc + DigitVal(Head(ds)))

\* int(tok): an optional sign and decimal digits; None stands for ValueError.
ParseInt(tok) ==
    LET signed == tok # <<>> /\ Head(tok) \in {"+", "-"}
        body == IF signed THEN Tail(tok) ELSE tok
    IN  IF body # <<>> /\ \A i \in 1..Len(body) : body[i] \in DigitChars
        THEN Some(IF signed /\ Head(tok) = "-" THEN -DigitsVal(body, 0)
                                               ELSE DigitsVal(body, 0))
        ELSE None

\* Lines 353-361, for slop's outcome o: the value returned, or a fall
\* through to scrot after an exception.
SlopBranchIgnoresExit(o) ==
    IF o = None
    THEN [kind |-> "fallthrough"]
    ELSE LET parts == Split(o[1].out)
         IN  IF Len(parts) = 4
             THEN IF \E i \in 1..4 : ParseInt(parts[i]) = None
                  THEN [kind |-> "fallthrough"]
                  ELSE IF ParseInt(parts[3])[1] > 4 /\ ParseInt(parts[4])[1] > 4
                       THEN [kind |-> "return",
                             value |-> Some(QRectXYWH(ParseInt(parts[1])[1],
                                                      ParseInt(parts[2])[1],
                                                      ParseInt(parts[3])[1],
                                                      ParseInt(parts[4])[1]))]
                       ELSE [kind |-> "return", value |-> None]
             ELSE [kind |-> "return", value |-> None]

SlopBranch(o) ==
    IF o = None
    THEN [kind |-> "fallthrough"]
    ELSE IF o[1].rc = 0
         THEN LET parts == Split(o[1].out)
              IN  IF Len(parts) = 4
                  THEN IF \E i \in 1..4 : ParseInt(parts[i]) = None
                       THEN [kind |-> "fallthrough"]
                       ELSE IF ParseInt(parts[3])[1] > 4 /\ ParseInt(parts[4])[1] > 4
                            THEN [kind |-> "return",
                                  value |-> Some(QRectXYWH(ParseInt(parts[1])[1],
                                                           ParseInt(parts[2])[1],
                                                           ParseInt(parts[3])[1],
                                                           ParseInt(parts[4])[1]))]
                            ELSE [kind |-> "return", value |-> None]
                  ELSE [kind |-> "return", value |-> None]
         ELSE [kind |-> "return", value |-> None]

\* Lines 366-385 with the image size taken as the far corner.
ScrotBranchCorner(o) ==
    IF o = None
    THEN [kind |-> "fallthrough"]
    ELSE IF o[1].rc = 0 /\ o[1].exists
         THEN IF o[1].size[1] > 4 /\ o[1].size[2] > 4
              THEN [kind |-> "return",
                    value |-> Some([x1 |-> 0, y1 |-> 0,
                                    x2 |-> o[1].size[1], y2 |-> o[1].size[2]])]
              ELSE [kind |-> "return", value |-> None]
         ELSE [kind |-> "return", value |-> None]

\* Lines 366-385, for scrot's outcome o.
ScrotBranch(o) ==
    IF o = None
    THEN [kind |-> "fallthrough"]
    ELSE IF o[1].rc = 0 /\ o[1].exists
         THEN IF o[1].size[1] > 4 /\ o[1].size[2] > 4
              THEN [kind |-> "return",
                    value |-> Some(QRectXYWH(0, 0, o[1].size[1], o[1].size[2]))]
              ELSE [kind |-> "return", value |-> None]
         ELSE [kind |-> "return", value |-> None]

SlopRuns(t) == t.slop

ScrotRuns(t, so) == t.scrot /\ (~t.slop \/ SlopBranch(so).kind = "fallthrough")

\* The QRect returned, or None.
_select_area_native(t, so, sc) ==
    IF SlopRuns(t) /\ SlopBranch(so).kind = "return"
    THEN SlopBranch(so).value
    ELSE IF ScrotRuns(t, so) /\ ScrotBranch(sc).kind = "return"
         THEN ScrotBranch(sc).value
         ELSE None

\* What slop may print: a selection, nothing, a tiny selection, text that is
\* not four integers.
SlopStdouts ==
    {<<"1", "0", "0", " ", "1", "0", "0", " ", "2", "0", "1", " ", "1", "5", "1", "\n">>,
     <<>>,
     <<"7", " ", "9", " ", "3", " ", "3", "\n">>,
     <<"a", " ", "b", " ", "c", " ", "d", "\n">>,
     <<"1", "0", " ", "2", "0", " ", "3", "0", "\n">>}

SlopOutcomes == {None} \cup {Some([rc |-> r, out |-> o]) : r \in {0, 1}, o \in SlopStdouts}

ScrotOutcomes ==
    {None} \cup {Some([rc |-> r, exists |-> e, size |-> sz]) :
                    r \in {0, 1}, e \in BOOLEAN, sz \in {<<300, 200>>, <<3, 3>>}}

(***************************************************************************)
(* AreaSelector, lines 405-441.                                            *)
(***************************************************************************)
Result(kind, rect) == [kind |-> kind, rect |-> rect]

\* start() with line 409 testing slop alone.
SelectorStartSlopOnly ==
    /\ spc = "idle"
    /\ spc' = IF tools.slop THEN "native" ELSE "overlay"
    /\ UNCHANGED <<tools, nativeRect, nativeLog, ov, ovEvents, lastEv, selOut>>
    /\ UNCHANGED nonSelVars

\* Lines 405-419 and 428-432: start().
SelectorStart ==
    /\ spc = "idle"
    /\ spc' = IF tools.slop \/ tools.scrot THEN "native" ELSE "overlay"
    /\ UNCHANGED <<tools, nativeRect, nativeLog, ov, ovEvents, lastEv, selOut>>
    /\ UNCHANGED nonSelVars

\* Lines 439-441: _SlopThread.run ("rect if rect" is QRect.isValid()).
NativeRun ==
    /\ spc = "native"
    /\ \E so \in SlopOutcomes, sc \in ScrotOutcomes :
          /\ (~SlopRuns(tools) => so = None)
          /\ (~ScrotRuns(tools, so) => sc = None)
          /\ LET rect == _select_area_native(tools, so, sc)
             IN  nativeRect' = IF rect # None /\ IsValid(rect[1])
                               THEN Some(rect[1]) ELSE Some(QRectNull)
          /\ nativeLog' = <<[slopRan |-> SlopRuns(tools), slop |-> so,
                             scrotRan |-> ScrotRuns(tools, so), scrot |-> sc]>>
    /\ spc' = "native_done"
    /\ UNCHANGED <<tools, ov, ovEvents, lastEv, selOut>>
    /\ UNCHANGED nonSelVars

\* Lines 421-425: _on_native_done.
OnNativeDone ==
    /\ spc = "native_done"
    /\ LET rect == nativeRect[1]
       IN  selOut' = IF IsNull(rect) \/ Width(rect) < 4 \/ Height(rect) < 4
                     THEN Append(selOut, Result("cancelled", None))
                     ELSE Append(selOut, Result("area_selected", Some(rect)))
    /\ spc' = "finished"
    /\ UNCHANGED <<tools, nativeRect, nativeLog, ov, ovEvents, lastEv>>
    /\ UNCHANGED nonSelVars

(***************************************************************************)
(* _AreaOverlay, lines 444-607.                                            *)
(***************************************************************************)
Pt(x, y) == [x |-> x, y |-> y]

\* QRect(QPoint, QPoint): the two points are the corners, both inside.
QRectPointsExclusive(p1, p2) == [x1 |-> p1.x, y1 |-> p1.y, x2 |-> p2.x - 1, y2 |-> p2.y - 1]

QRectPoints(p1, p2) == [x1 |-> p1.x, y1 |-> p1.y, x2 |-> p2.x, y2 |-> p2.y]

\* QRect.normalized() of Qt 5: corners are swapped when the size is negative.
Normalized(r) ==
    [x1 |-> IF r.x2 < r.x1 - 1 THEN r.x2 ELSE r.x1,
     x2 |-> IF r.x2 < r.x1 - 1 THEN r.x1 ELSE r.x2,
     y1 |-> IF r.y2 < r.y1 - 1 THEN r.y2 ELSE r.y1,
     y2 |-> IF r.y2 < r.y1 - 1 THEN r.y1 ELSE r.y2]

\* Line 585.
MinSizeOkEither(sel) == Width(sel) > 10 \/ Height(sel) > 10

MinSizeOk(sel) == Width(sel) > 10 /\ Height(sel) > 10

\* Where the pointer can be.
Points ==
    {Pt(100, 100), Pt(300, 250), Pt(105, 103), Pt(110, 110), Pt(109, 120),
     Pt(99, 100), Pt(99, 99)}

Buttons == {"left", "right"}

Keys == {"Escape", "Return", "Enter", "Space"}

\* Lines 597-607: _finish(ok) on the overlay o; the overlay's signals are
\* connected to the selector's (lines 430-431).
FinishDone(o) == [o EXCEPT !.done = TRUE]

\* Lines 603-606 alone, without the guard of lines 598-600.
FinishOutUnguarded(ok, o) ==
    IF ok
    THEN Append(selOut, Result("area_selected", Some(Normalized(o.sel))))
    ELSE Append(selOut, Result("cancelled", None))

\* Lines 597-607: what _finish(ok) emits.
FinishOut(ok, o) ==
    IF o.done
    THEN selOut
    ELSE IF ok
         THEN Append(selOut, Result("area_selected", Some(Normalized(o.sel))))
         ELSE Append(selOut, Result("cancelled", None))

\* Lines 568-573.
MousePress ==
    /\ spc = "overlay"
    /\ ovEvents < MaxOverlayEvents
    /\ \E pos \in Points, b \in Buttons :
          /\ ov' = IF b = "left"
                   THEN [ov EXCEPT !.origin = pos, !.sel = QRectNull, !.drag = TRUE]
                   ELSE ov
          /\ lastEv' = Some([type |-> "press", pos |-> pos, button |-> b])
    /\ ovEvents' = ovEvents + 1
    /\ UNCHANGED <<tools, spc, nativeRect, nativeLog, selOut>>
    /\ UNCHANGED nonSelVars

\* Lines 575-578.
MouseMove ==
    /\ spc = "overlay"
    /\ ovEvents < MaxOverlayEvents
    /\ \E pos \in Points :
          /\ ov' = IF ov.drag
                   THEN [ov EXCEPT !.sel = Normalized(QRectPoints(ov.origin, pos))]
                   ELSE ov
          /\ lastEv' = Some([type |-> "move", pos |-> pos, button |-> "none"])
    /\ ovEvents' = ovEvents + 1
    /\ UNCHANGED <<tools, spc, nativeRect, nativeLog, selOut>>
    /\ UNCHANGED nonSelVars

\* Lines 580-588.
MouseRelease ==
    /\ spc = "overlay"
    /\ ovEvents < MaxOverlayEvents
    /\ \E pos \in Points, b \in Buttons :
          /\ IF b = "left" /\ ov.drag
             THEN LET o == [ov EXCEPT !.drag = FALSE,
                                      !.sel = Normalized(QRectPoints(ov.origin, pos))]
                  IN  /\ ov' = FinishDone(o)
                      /\ selOut' = FinishOut(MinSizeOk(o.sel), o)
             ELSE UNCHANGED <<ov, selOut>>
          /\ lastEv' = Some([type |-> "release", pos |-> pos, button |-> b])
    /\ ovEvents' = ovEvents + 1
    /\ UNCHANGED <<tools, spc, nativeRect, nativeLog>>
    /\ UNCHANGED nonSelVars

\* Lines 590-595 without the test of line 594.
KeyPressEnterAlways ==
    /\ spc = "overlay"
    /\ ovEvents < MaxOverlayEvents
    /\ \E k \in Keys :
          /\ IF k = "Escape"
             THEN ov' = FinishDone(ov) /\ selOut' = FinishOut(FALSE, ov)
             ELSE IF k \in {"Return", "Enter"}
                  THEN ov' = FinishDone(ov) /\ selOut' = FinishOut(TRUE, ov)
                  ELSE UNCHANGED <<ov, selOut>>
          /\ lastEv' = Some([type |-> "key", pos |-> Pt(0, 0), button |-> k])
    /\ ovEvents' = ovEvents + 1
    /\ UNCHANGED <<tools, spc, nativeRect, nativeLog>>
    /\ UNCHANGED nonSelVars

\* Lines 590-595.
KeyPress ==
    /\ spc = "overlay"
    /\ ovEvents < MaxOverlayEvents
    /\ \E k \in Keys :
          /\ IF k = "Escape"
             THEN ov' = FinishDone(ov) /\ selOut' = FinishOut(FALSE, ov)
             ELSE IF k \in {"Return", "Enter"} /\ ~IsNull(ov.sel)
                  THEN ov' = FinishDone(ov) /\ selOut' = FinishOut(TRUE, ov)
                  ELSE UNCHANGED <<ov, selOut>>
          /\ lastEv' = Some([type |-> "key", pos |-> Pt(0, 0), button |-> k])
    /\ ovEvents' = ovEvents + 1
    /\ UNCHANGED <<tools, spc, nativeRect, nativeLog>>
    /\ UNCHANGED nonSelVars

(***************************************************************************)
(* Specification of the selection session.                                 *)
(***************************************************************************)
\* No recording session.
RecorderParked ==
    /\ cfg = [area |-> None, fps |-> 30, quality |-> 2, audio |-> FALSE,
              webcam |-> FALSE, webcam_pos |-> "bottom-right",
              webcam_size |-> "small",
              output |-> <<"/", "r", "/", "a", ".", "m", "p", "4">>]
    /\ env = [screen |-> QRectXYWH(0, 0, 1920, 1080), display |-> ":0",
              camExists |-> TRUE, audio |-> NoAudioStack]
    /\ wpc = "parked"
    /\ upc = "idle"
    /\ proc = None
    /\ popenExc = None
    /\ stopFlag = FALSE
    /\ cmd = <<>>
    /\ final = <<>>
    /\ child = "none"
    /\ returncode = None
    /\ childErr = <<>>
    /\ stderrBytes = <<>>
    /\ quitWrites = 0
    /\ termSignals = 0
    /\ fileExists = FALSE
    /\ probeRuns = 0
    /\ spawns = 0
    /\ stops = 0
    /\ emitted = <<>>

InitSel ==
    /\ RecorderParked
    /\ AudioParked
    /\ UiParked
    /\ ModeParked
    /\ tools \in [slop : BOOLEAN, scrot : BOOLEAN]
    /\ spc = "idle"
    /\ nativeRect = None
    /\ nativeLog = <<>>
    /\ ov = [origin |-> Pt(0, 0), sel |-> QRectNull, drag |-> FALSE, done |-> FALSE]
    /\ ovEvents = 0
    /\ lastEv = None
    /\ selOut = <<>>

NextSel ==
    \/ SelectorStart \/ NativeRun \/ OnNativeDone
    \/ MousePress \/ MouseMove \/ MouseRelease \/ KeyPress

\* One selection session, with every tool outcome and every event sequence.
SpecSel == InitSel /\ [][NextSel]_vars

(***************************************************************************)
(* Properties of the selection session.                                    *)
(***************************************************************************)
Abs(n) == IF n < 0 THEN -n ELSE n

Min(a, b) == IF a < b THEN a ELSE b

SlopExitedWith(rc) ==
    /\ nativeLog # <<>>
    /\ nativeLog[1].slopRan
    /\ nativeLog[1].slop # None
    /\ nativeLog[1].slop[1].rc = rc

\* C8: when slop exits with code 1, the session resolves to Cancelled and
\* never to a Resolved rectangle, whatever slop printed.
C8_SlopExit1Cancelled ==
    SlopExitedWith(1) =>
        /\ nativeRect = Some(QRectNull)
        /\ \A i \in 1..Len(selOut) : selOut[i].kind = "cancelled"
        /\ spc = "finished" => selOut = <<Result("cancelled", None)>>

\* slop exited with code 1 after printing a well-formed selection, and the
\* session has delivered its result.
C8_Witness ==
    /\ SlopExitedWith(1)
    /\ Len(Split(nativeLog[1].slop[1].out)) = 4
    /\ spc = "finished"

\* This step is a pointer release that resolves the session to a rectangle.
ReleaseResolves ==
    /\ lastEv' # None /\ lastEv'[1].type = "release"
    /\ Len(selOut') = Len(selOut) + 1
    /\ selOut'[Len(selOut')].kind = "area_selected"

\* C9 as stated: a press at A and a release at B that passes the
\* minimum-size check resolve to the rectangle with top-left (min x, min y)
\* and width |Bx-Ax|, height |By-Ay|.
C9_WidthIsDisplacement ==
    [][ReleaseResolves =>
          LET A == ov.origin
              B == lastEv'[1].pos
              r == selOut'[Len(selOut')].rect[1]
          IN  /\ r.x1 = Min(A.x, B.x) /\ r.y1 = Min(A.y, B.y)
              /\ Width(r) = Abs(B.x - A.x) /\ Height(r) = Abs(B.y - A.y)]_vars

\* C9, amended: the rectangle has top-left (min x, min y) and spans both
\* points, so its width is |Bx-Ax| + 1 and its height |By-Ay| + 1; a drag
\* from (100,100) to (300,250) resolves to Rectangle(100,100,201,151).
C9_WidthSpansBothPoints ==
    [][ReleaseResolves =>
          LET A == ov.origin
              B == lastEv'[1].pos
              r == selOut'[Len(selOut')].rect[1]
          IN  /\ r.x1 = Min(A.x, B.x) /\ r.y1 = Min(A.y, B.y)
              /\ Width(r) = Abs(B.x - A.x) + 1 /\ Height(r) = Abs(B.y - A.y) + 1
              /\ (A = Pt(100, 100) /\ B = Pt(300, 250)) =>
                    r = QRectXYWH(100, 100, 201, 151)]_vars

\* A press at (100,100) and then a release at (300,250) have resolved the
\* session.
C9_Witness ==
    /\ ovEvents = 2
    /\ ov.origin = Pt(100, 100)
    /\ lastEv = Some([type |-> "release", pos |-> Pt(300, 250), button |-> "left"])
    /\ selOut = <<Result("area_selected", Some(QRectXYWH(100, 100, 201, 151)))>>

\* This step is a left-button release that ends a drag of a live session.
ReleaseEndsDrag ==
    /\ lastEv' # None /\ lastEv'[1].type = "release" /\ lastEv'[1].button = "left"
    /\ ovEvents' = ovEvents + 1
    /\ ov.drag /\ ~ov.done

\* C10: a pointer release that leaves a rectangle with width <= 10 or
\* height <= 10 resolves the session to Cancelled, never to Resolved; so does
\* a drag from (100,100) to (105,103).
C10_SmallReleaseCancelled ==
    [][ReleaseEndsDrag =>
          /\ (Width(ov'.sel) <= 10 \/ Height(ov'.sel) <= 10) =>
                selOut' = Append(selOut, Result("cancelled", None))
          /\ (ov.origin = Pt(100, 100) /\ lastEv'[1].pos = Pt(105, 103)) =>
                selOut' = Append(selOut, Result("cancelled", None))]_vars

\* A drag 10 pixels wide and 21 high, released: cancelled.
C10_Witness ==
    /\ ovEvents = 2
    /\ ov.origin = Pt(100, 100)
    /\ lastEv = Some([type |-> "release", pos |-> Pt(109, 120), button |-> "left"])
    /\ Width(ov.sel) = 10 /\ Height(ov.sel) = 21
    /\ selOut = <<Result("cancelled", None)>>

(***************************************************************************)
(* One detect_audio_source() call, lines 248-321, probe by probe.          *)
(***************************************************************************)
MonitorLine2 ==
    <<"2", "\t", "a", "l", "s", "a", "_", "o", "u", "t", "p", "u",
      "t", ".", "H", "D", "M", "I", ".", "m", "o", "n", "i", "t",
      "o", "r", "\t", "P", "i", "p", "e", "W", "i", "r", "e">>

\* A line of one field.
JunkLine == <<"C", "o", "n", "n", "e", "c", "t", "i", "o", "n">>

\* What pw-cli can answer: it raised, it failed, it printed nothing, it listed nodes.
PwCliOutcomes ==
    {None, Some([rc |-> 1, out |-> FALSE]), Some([rc |-> 0, out |-> FALSE]),
     Some([rc |-> 0, out |-> TRUE])}

PactlStdouts ==
    {Stdout(<<MonitorLine, UsbLine>>), Stdout(<<UsbLine, MonitorLine>>),
     Stdout(<<MonitorLine>>), Stdout(<<MonitorLine2, MonitorLine>>),
     Stdout(<<JunkLine>>), Stdout(<<JunkLine, MonitorLine>>),
     <<>>, <<"\n">>}

PactlOutcomes ==
    {None, Some([rc |-> 1, out |-> <<>>])}
        \cup {Some([rc |-> 0, out |-> o]) : o \in PactlStdouts}

PaCheckOutcomes == {None, Some([rc |-> 0]), Some([rc |-> 1])}

\* The capture devices a host may have: none, card 0, card 1 alone (card 0
\* has no capture device), both.
ArecordDeviceLists ==
    {<<>>, <<[card |-> 0, device |-> 0]>>, <<[card |-> 1, device |-> 0]>>,
     <<[card |-> 0, device |-> 0], [card |-> 1, device |-> 0]>>}

\* arecord: it raised, it failed, it listed the devices.
ArecordOutcomes ==
    {None, Some([rc |-> 1, out |-> <<>>])}
        \cup {Some([rc |-> 0, out |-> ArecordStdout(devs)]) : devs \in ArecordDeviceLists}

ProbeEnvs ==
    [pwcli : PwCliOutcomes, pactl1 : PactlOutcomes, pactl2 : PactlOutcomes,
     pacheck : PaCheckOutcomes, arecord : ArecordOutcomes]

\* A step of the call: the probes it runs, and the return or the next step.
DetectGoes(ran, r, next) ==
    /\ audLog' = audLog \o ran
    /\ IF r # None
       THEN audResult' = r /\ apc' = "returned"
       ELSE audResult' = audResult /\ apc' = next
    /\ UNCHANGED audEnv
    /\ UNCHANGED nonAudVars

\* Lines 254-279.
DetectPipeWire ==
    /\ apc = "step1"
    /\ DetectGoes(IF audEnv.pwcli # None /\ audEnv.pwcli[1].rc = 0
                     /\ audEnv.pwcli[1].out
                  THEN <<"pw-cli", "pactl">> ELSE <<"pw-cli">>,
                  DetectStep1(audEnv), "step2")

\* Step 2 going on to step 4.
DetectPulseSkipsCheck ==
    /\ apc = "step2"
    /\ DetectGoes(<<"pactl">>, DetectStep2(audEnv), "step4")

\* Lines 281-299.
DetectPulse ==
    /\ apc = "step2"
    /\ DetectGoes(<<"pactl">>, DetectStep2(audEnv), "step3")

\* Lines 301-310.
DetectPulseCheck ==
    /\ apc = "step3"
    /\ DetectGoes(<<"pulseaudio">>, DetectStep3(audEnv), "step4")

\* Lines 312-318.
DetectAlsa ==
    /\ apc = "step4"
    /\ DetectGoes(<<"arecord">>, DetectStep4(audEnv), "step5")

\* Line 321.
DetectLastResort ==
    /\ apc = "step5"
    /\ DetectGoes(<<>>, Some(<<"pulse", "default">>), "step5")

InitAudio ==
    /\ RecorderParked
    /\ SelectorParked
    /\ UiParked
    /\ ModeParked
    /\ audEnv \in ProbeEnvs
    /\ apc = "step1"
    /\ audLog = <<>>
    /\ audResult = None

NextAudio ==
    \/ DetectPipeWire \/ DetectPulse \/ DetectPulseCheck \/ DetectAlsa
    \/ DetectLastResort

\* One call, with every combination of probe outcomes.
SpecAudio == InitAudio /\ [][NextAudio]_vars

(***************************************************************************)
(* Properties of the audio source resolver.                                *)
(***************************************************************************)
\* The call returned from its first step with a source list from pactl.
ModernServerListed ==
    /\ apc = "returned"
    /\ audLog = <<"pw-cli", "pactl">>
    /\ audEnv.pwcli # None
    /\ audEnv.pwcli[1].rc = 0
    /\ audEnv.pwcli[1].out
    /\ audEnv.pactl1 # None
    /\ audEnv.pactl1[1].rc = 0
    /\ Strip(audEnv.pactl1[1].out) # <<>>

\* The names of the sources pactl listed, in order (a line without a second
\* field names no source).
SourceNames(out) ==
    LET lines == SplitLines(Strip(out))
    IN  SelectSeq([i \in 1..Len(lines) |->
                      IF Len(Split(lines[i])) >= 2 THEN Split(lines[i])[2] ELSE <<>>],
                  LAMBDA n : n # <<>>)

IsMonitorName(n) == Contains(Lower(n), Monitor)

\* C11: when the modern-server probe answers and pactl lists the sources
\* "alsa_output.monitor" and "alsa_input.usb", in either order, the call
\* returns "alsa_input.usb"; whatever the list, the first non-monitor source
\* is returned when there is one, and the first source is returned only when
\* every source is a monitor.
C11_NonMonitorPreferred ==
    ModernServerListed =>
        LET out == audEnv.pactl1[1].out
            names == SourceNames(out)
            plain == SelectSeq(names, LAMBDA n : ~IsMonitorName(n))
        IN  /\ out \in {Stdout(<<MonitorLine, UsbLine>>), Stdout(<<UsbLine, MonitorLine>>)}
                => audResult[1] = <<"pulse", "alsa_input.usb">>
            /\ plain # <<>> => audResult[1] = <<"pulse", Join(plain[1])>>
            /\ (names # <<>> /\ audResult[1] = <<"pulse", Join(names[1])>>)
                => (plain = <<>> \/ plain[1] = names[1])

C11_Witness ==
    /\ ModernServerListed
    /\ audEnv.pactl1[1].out = Stdout(<<MonitorLine, UsbLine>>)
    /\ audResult = Some(<<"pulse", "alsa_input.usb">>)

\* C12: whatever the probes do (raise for a missing binary or a timeout,
\* exit non-zero, print nothing or print lines without a source), the call
\* is at one of its five steps (none of which can be refused) or has
\* returned, and what it returns is a pair of a driver among
\* "pulse" and "alsa" and a non-empty source.
C12_AlwaysReturnsSource ==
    /\ apc # "returned" =>
          audResult = None /\ apc \in {"step1", "step2", "step3", "step4", "step5"}
    /\ apc = "returned" =>
          /\ audResult # None
          /\ audResult[1] = detect_audio_source(audEnv)
          /\ audResult[1][1] \in {"pulse", "alsa"}
          /\ audResult[1][2] # ""

\* Every probe raised, and pactl printed a line without a source.
C12_Witness ==
    /\ apc = "returned"
    /\ \/ audEnv = NoAudioStack /\ audLog = <<"pw-cli", "pactl", "pulseaudio", "arecord">>
       \/ /\ audLog = <<"pw-cli", "pactl">>
          /\ audEnv.pwcli = None
          /\ audEnv.pactl2 = Some([rc |-> 0, out |-> Stdout(<<JunkLine>>)])
    /\ audResult = Some(<<"pulse", "default">>)

(***************************************************************************)
(* Further properties of the region selector.                              *)
(***************************************************************************)
\* C13: a selection session produces at most one result, on the native path
\* and on the overlay path, whatever the tools return and whatever events
\* reach the overlay; the result is area_selected with a rectangle or
\* cancelled without one.
C13_AtMostOneResult ==
    /\ Len(selOut) <= 1
    /\ \A i \in 1..Len(selOut) :
          \/ selOut[i].kind = "area_selected" /\ selOut[i].rect # None
          \/ selOut[i].kind = "cancelled" /\ selOut[i].rect = None
    /\ spc = "finished" => Len(selOut) = 1

\* The overlay resolved, and Escape was pressed after that.
C13_Witness ==
    /\ spc = "overlay"
    /\ ov.done
    /\ lastEv = Some([type |-> "key", pos |-> Pt(0, 0), button |-> "Escape"])
    /\ Len(selOut) = 1
    /\ selOut[1].kind = "area_selected"

\* slop was run and returned (it did not raise).
SlopReturned ==
    /\ nativeLog # <<>>
    /\ nativeLog[1].slopRan
    /\ nativeLog[1].slop # None

\* slop was run and subprocess.run raised: TimeoutExpired after the 60 s.
SlopTimedOut ==
    /\ nativeLog # <<>>
    /\ nativeLog[1].slopRan
    /\ nativeLog[1].slop = None

\* C19: when slop has returned, no further selection tool is run, and the
\* session resolves to slop's rectangle exactly when slop exited with 0 and
\* printed four integers with width > 4 and height > 4; with any other exit
\* code or output, malformed output included, it resolves to Cancelled.
C19_SlopAloneDecides ==
    SlopReturned =>
        LET o == nativeLog[1].slop[1]
            parts == Split(o.out)
            ok == /\ o.rc = 0
                  /\ Len(parts) = 4
                  /\ \A i \in 1..4 : ParseInt(parts[i]) # None
                  /\ ParseInt(parts[3])[1] > 4
                  /\ ParseInt(parts[4])[1] > 4
        IN  /\ ~nativeLog[1].scrotRan
            /\ ok => nativeRect = Some(QRectXYWH(ParseInt(parts[1])[1],
                                                 ParseInt(parts[2])[1],
                                                 ParseInt(parts[3])[1],
                                                 ParseInt(parts[4])[1]))
            /\ ~ok => nativeRect = Some(QRectNull)
            /\ (~ok /\ spc = "finished") => selOut = <<Result("cancelled", None)>>

\* C20: when slop exceeds its 60 s, no exception escapes (the session goes
\* on to deliver a result) and the result is Cancelled, never a rectangle.
C20_SlopTimeoutCancelled ==
    SlopTimedOut =>
        /\ spc \in {"native_done", "finished"}
        /\ nativeRect = Some(QRectNull)
        /\ spc = "finished" => selOut = <<Result("cancelled", None)>>

(***************************************************************************)
(* Further properties of the recording session.                            *)
(***************************************************************************)
Emitted(sig) == {i \in 1..Len(emitted) : emitted[i].sig = sig}

\* C14: when Popen fails because there is no ffmpeg binary, the session is
\* over with one sig_error that says the tool was not found: no RECORDING
\* status and no sig_done is emitted, then or later, and there is no child.
C14_MissingBinaryFails ==
    popenExc = Some("FileNotFoundError") =>
        /\ wpc = "done"
        /\ emitted = <<[sig |-> "sig_error",
                        arg |-> "ffmpeg not found.\n  sudo apt install ffmpeg"]>>
        /\ Emitted("sig_status") = {}
        /\ Emitted("sig_done") = {}
        /\ proc = None /\ child = "none"

\* The spawn failed for the missing binary and stop() was called afterwards.
C14_Witness ==
    /\ popenExc = Some("FileNotFoundError")
    /\ spawns = 1
    /\ stops >= 1
    /\ upc = "idle"
    /\ Len(emitted) = 1

\* C15: a stop() call made when an earlier stop() has already written the
\* quit command and the child is still alive, or when the child has exited,
\* does nothing: from its check at line 746 it returns, it does not go on to
\* write the quit command again, to wait again or to terminate again.
C15_RepeatedStopIsNoOp ==
    [][(/\ stops >= 2
        /\ upc = "stop_check"
        /\ (quitWrites >= 1 \/ child = "exited"))
          => (/\ upc' \in {"stop_check", "idle"}
              /\ quitWrites' = quitWrites
              /\ termSignals' = termSignals)]_vars

\* C16: only the worker (run(), line 724) waits for the child to exit; the
\* caller's thread, which executes stop(), is never waiting on the child.
C16_CallerNeverWaitsOnChild ==
    upc # "stop_wait"

\* C18: in every interleaving of stop() with run(), the flag is set before
\* the quit command is written and before SIGTERM is sent; so once stop() has
\* written or signalled, the session is never reported as failed, whatever
\* exit code the child leaves and whether or not the file exists.
C18_FlagSetBeforeSignal ==
    /\ upc \in {"stop_check", "stop_write", "stop_wait"} => stopFlag
    /\ (quitWrites > 0 \/ termSignals > 0) =>
          /\ stopFlag
          /\ Emitted("sig_error") = {}
          /\ wpc = "done" => Emitted("sig_done") # {}

\* The child ended on SIGTERM without having written the file, and run()
\* reported the session as done.
C18_Witness ==
    /\ termSignals > 0
    /\ returncode = Some(-15)
    /\ ~fileExists
    /\ wpc = "done"
    /\ LastEmitted.sig = "sig_done"

(***************************************************************************)
(* KomoCap.start_recording and KomoCap.stop_recording, lines 1816-1872,    *)
(* over several requests.  Each RecorderThread instance is kept as         *)
(* [wpc, proc, child, stop, spawns]: the position of its run(), whether    *)
(* self._proc is set, its encoder ("none", "alive", "exited"), self._stop  *)
(* and the number of Popen calls it made.  Both methods run on the UI      *)
(* thread, so no request is served while the thread is inside stop().      *)
(***************************************************************************)
\* RecorderThread.__init__, lines 625-629, and QThread.start().
NewThread ==
    [wpc |-> "start", proc |-> FALSE, child |-> "none", stop |-> FALSE, spawns |-> 0]

\* QThread.isRunning(): from start() until run() has returned.
IsRunning(t) == threads[t].wpc # "finished"

\* Lines 1828-1841 without the guard of lines 1817-1818.
StartRecordingUnguarded ==
    /\ uiPc = "idle"
    /\ Len(uiLog) < MaxRequests
    /\ threads' = Append(threads, NewThread)
    /\ recorder' = Some(Len(threads) + 1)
    /\ uiLog' = Append(uiLog, "started")
    /\ UNCHANGED uiPc
    /\ UNCHANGED nonUiVars

\* Lines 1816-1841.
StartRecording ==
    /\ uiPc = "idle"
    /\ Len(uiLog) < MaxRequests
    /\ IF recorder # None /\ IsRunning(recorder[1])
       THEN /\ uiLog' = Append(uiLog, "start_ignored")
            /\ UNCHANGED <<recorder, threads>>
       ELSE /\ threads' = Append(threads, NewThread)
            /\ recorder' = Some(Len(threads) + 1)
            /\ uiLog' = Append(uiLog, "started")
    /\ UNCHANGED uiPc
    /\ UNCHANGED nonUiVars

\* Lines 1861-1863 and 744-751: stop() sets the flag and, with a live child,
\* writes the quit command and starts to wait.
StopRecording ==
    /\ uiPc = "idle"
    /\ Len(uiLog) < MaxRequests
    /\ IF recorder = None
       THEN /\ uiLog' = Append(uiLog, "stop_nothing")
            /\ UNCHANGED <<threads, uiPc>>
       ELSE LET t == recorder[1]
            IN  /\ threads' = [threads EXCEPT ![t].stop = TRUE]
                /\ uiPc' = IF threads[t].proc /\ threads[t].child = "alive"
                           THEN "stop_wait" ELSE "idle"
                /\ uiLog' = Append(uiLog, "stopped")
    /\ UNCHANGED recorder
    /\ UNCHANGED nonUiVars

\* Lines 752-755 and 1864-1872: the child exited, or the 5 s passed and
\* terminate() was called; stop_recording returns.
StopReturns ==
    /\ uiPc = "stop_wait"
    /\ uiPc' = "idle"
    /\ UNCHANGED <<recorder, threads, uiLog>>
    /\ UNCHANGED nonUiVars

\* Lines 631-713 of an instance's run(): the area is too small (run()
\* returns), or the command is built.
ThreadBuild ==
    /\ \E t \in 1..Len(threads) :
          /\ threads[t].wpc = "start"
          /\ \E to \in {"spawn", "finished"} : threads' = [threads EXCEPT ![t].wpc = to]
    /\ UNCHANGED <<recorder, uiPc, uiLog>>
    /\ UNCHANGED nonUiVars

\* Lines 716-722 and 739-742: Popen returns, or raises and run() returns.
ThreadSpawn ==
    /\ \E t \in 1..Len(threads) :
          /\ threads[t].wpc = "spawn"
          /\ \/ threads' = [threads EXCEPT ![t].wpc = "wait", ![t].proc = TRUE,
                                           ![t].child = "alive",
                                           ![t].spawns = @ + 1]
             \/ threads' = [threads EXCEPT ![t].wpc = "finished", ![t].spawns = @ + 1]
    /\ UNCHANGED <<recorder, uiPc, uiLog>>
    /\ UNCHANGED nonUiVars

\* Lines 724-738: wait() returns once the child has exited; run() returns.
ThreadWait ==
    /\ \E t \in 1..Len(threads) :
          /\ threads[t].wpc = "wait"
          /\ threads[t].child = "exited"
          /\ threads' = [threads EXCEPT ![t].wpc = "finished"]
    /\ UNCHANGED <<recorder, uiPc, uiLog>>
    /\ UNCHANGED nonUiVars

\* An encoder exits: by itself, on the quit command or on SIGTERM.  One that
\* never does stays alive.
EncoderExits ==
    /\ \E t \in 1..Len(threads) :
          /\ threads[t].child = "alive"
          /\ threads' = [threads EXCEPT ![t].child = "exited"]
    /\ UNCHANGED <<recorder, uiPc, uiLog>>
    /\ UNCHANGED nonUiVars

\* KomoCap.__init__, line 919.
InitUi ==
    /\ RecorderParked
    /\ SelectorParked
    /\ AudioParked
    /\ ModeParked
    /\ recorder = None
    /\ threads = <<>>
    /\ uiPc = "idle"
    /\ uiLog = <<>>

NextUi ==
    \/ StartRecording \/ StopRecording \/ StopReturns
    \/ ThreadBuild \/ ThreadSpawn \/ ThreadWait \/ EncoderExits

\* Start and stop requests in any order, with every behaviour of the workers
\* and of the encoders.
SpecUi == InitUi /\ [][NextUi]_vars

\* C17: whatever start and stop requests are made, at most one encoder is
\* alive at any moment and no RecorderThread instance calls Popen twice; a
\* start request made while the current worker is running creates nothing,
\* so every instance but the newest has finished.
C17_OneEncoderAtATime ==
    /\ Cardinality({t \in 1..Len(threads) : threads[t].child = "alive"}) <= 1
    /\ \A t \in 1..Len(threads) : threads[t].spawns <= 1
    /\ \A t \in 1..(Len(threads) - 1) : ~IsRunning(t)
    /\ Len(threads) = Cardinality({i \in 1..Len(uiLog) : uiLog[i] = "started"})

\* A start request was ignored during the first session; a second session
\* was started later and its encoder is alive.
C17_Witness ==
    /\ Len(threads) = 2
    /\ threads[2].child = "alive"
    /\ threads[1].spawns = 1
    /\ \E i \in 1..Len(uiLog) : uiLog[i] = "start_ignored"

(***************************************************************************)
(* Further properties of the command.                                      *)
(***************************************************************************)
\* The (compression factor, preset) the command asks for.
CmdQuality == <<ArgAfter(cmd, "-crf"), ArgAfter(cmd, "-preset")>>

\* C21: the command carries the pair of the fixed table for tiers 0..4, and
\* the pair (18, medium) for an index outside 0..4, which is no error: the
\* build goes on to the spawn like any other.
C21_QualityTable ==
    /\ cmd # <<>> =>
          /\ cfg.quality = 0 => CmdQuality = <<"45", "ultrafast">>
          /\ cfg.quality = 1 => CmdQuality = <<"28", "fast">>
          /\ cfg.quality = 2 => CmdQuality = <<"18", "medium">>
          /\ cfg.quality = 3 => CmdQuality = <<"12", "slow">>
          /\ cfg.quality = 4 => CmdQuality = <<"0", "veryslow">>
          /\ cfg.quality \notin 0..4 => CmdQuality = <<"18", "medium">>
    /\ (wpc = "done" /\ spawns = 0) =>
          emitted = <<[sig |-> "sig_error", arg |-> "Selected area is too small."]>>
    /\ (/\ cfg.quality \notin 0..4
        /\ ~TooSmall(Geometry(cfg.area, env.screen).w, Geometry(cfg.area, env.screen).h)
        /\ wpc # "start")
          => cmd # <<>>

\* An index outside the table, once the encoder was spawned.
C21_Witness ==
    /\ cfg.quality = -1
    /\ spawns = 1
    /\ proc # None
    /\ CmdQuality = <<"18", "medium">>

\* The positions of flag in the command, and the 0-based index, among the
\* command's inputs, of the input given at position i.
FlagPositions(c, flag) == {i \in 1..(Len(c) - 1) : c[i] = flag}

InputIndex(c, i) == Cardinality({j \in FlagPositions(c, "-i") : j < i})

\* C30: with a webcam requested and /dev/video0 present, the webcam is the
\* input after the screen and the audio (index 2 with audio, 1 without), the
\* filter graph names exactly that input, and the maps are the composed
\* video, plus "1:a" exactly when there is audio.
C30_WebcamIndexAndMaps ==
    (cmd # <<>> /\ cfg.webcam /\ env.camExists) =>
        LET cams == {i \in FlagPositions(cmd, "-i") : cmd[i + 1] = "/dev/video0"}
            cam == CHOOSE i \in cams : TRUE
            maps == FlagPositions(cmd, "-map")
        IN  /\ Cardinality(cams) = 1
            /\ cmd[cam - 2] = "-f" /\ cmd[cam - 1] = "v4l2"
            /\ InputIndex(cmd, cam) = (IF cfg.audio THEN 2 ELSE 1)
            /\ Cardinality(FlagPositions(cmd, "-i")) = InputIndex(cmd, cam) + 1
            /\ ArgAfter(cmd, "-filter_complex") =
                  "[" \o Str(InputIndex(cmd, cam)) \o ":v]scale=" \o SzMap(cfg.webcam_size)
                      \o ",format=yuv420p[cam];[0:v][cam]overlay="
                      \o PosMap(cfg.webcam_pos) \o "[out]"
            /\ ~HasArg(cmd, "-vf")
            /\ {cmd[i + 1] : i \in maps} =
                  {"[out]"} \cup (IF cfg.audio THEN {"1:a"} ELSE {})
            /\ Cardinality(maps) = (IF cfg.audio THEN 2 ELSE 1)
            /\ cfg.audio =>
                  \E i \in FlagPositions(cmd, "-i") :
                      InputIndex(cmd, i) = 1 /\ cmd[i - 1] \in {"pulse", "alsa"}

\* Audio and a webcam: the webcam is input 2 and "1:a" is mapped.
C30_Witness ==
    /\ cmd # <<>>
    /\ cfg.webcam /\ env.camExists /\ cfg.audio
    /\ HasArg(cmd, "1:a")
    /\ spawns = 1

\* C22: the command and the output path are determined by the config, the
\* audio source and the screen size alone: a build on a host that differs in
\* anything else (DISPLAY, the presence of /dev/video0) gives the same
\* argument vector, and the build has run no process.
C22_BuildIsPure ==
    cmd # <<>> =>
        LET g == Geometry(cfg.area, env.screen)
            src == IF cfg.audio THEN detect_audio_source(env.audio) ELSE <<"", "">>
        IN  /\ \A d \in Displays, cam \in BOOLEAN :
                  BuildCmd(cfg, [env EXCEPT !.display = d, !.camExists = cam], g, src)
                      = cmd
            /\ final = FinalPath(cfg.output, cfg.quality)
            /\ probeRuns = 0

(***************************************************************************)
(* Properties of the choice of picker.                                     *)
(***************************************************************************)
\* The native path was taken and every native tool that was run raised.
NativeToolsFailed ==
    /\ nativeLog # <<>>
    /\ nativeLog[1].slopRan => nativeLog[1].slop = None
    /\ nativeLog[1].scrotRan => nativeLog[1].scrot = None

\* slop is run when installed; scrot is run when slop is not installed and
\* scrot is; the overlay is shown when neither is installed.
PickerByInstallation ==
    /\ spc \in {"native", "native_done", "finished"} => (tools.slop \/ tools.scrot)
    /\ spc = "overlay" => (~tools.slop /\ ~tools.scrot)
    /\ nativeLog # <<>> =>
          /\ nativeLog[1].slopRan = tools.slop
          /\ ~tools.slop => nativeLog[1].scrotRan = tools.scrot

ScrotSucceeded ==
    /\ nativeLog # <<>>
    /\ nativeLog[1].scrotRan
    /\ nativeLog[1].scrot # None
    /\ nativeLog[1].scrot[1].rc = 0
    /\ nativeLog[1].scrot[1].exists
    /\ nativeLog[1].scrot[1].size[1] > 4
    /\ nativeLog[1].scrot[1].size[2] > 4

\* C24: when scrot is the tool that succeeds, the session resolves to the
\* rectangle at x = 0, y = 0 whose width and height are those of the saved
\* image; nothing of the result depends on where the region was dragged.
C24_ScrotRectAtOrigin ==
    ScrotSucceeded =>
        LET size == nativeLog[1].scrot[1].size
        IN  /\ nativeRect # None
            /\ nativeRect[1].x1 = 0 /\ nativeRect[1].y1 = 0
            /\ Width(nativeRect[1]) = size[1]
            /\ Height(nativeRect[1]) = size[2]
            /\ spc = "finished" =>
                  selOut = <<Result("area_selected", Some(QRectXYWH(0, 0, size[1], size[2])))>>

\* scrot alone is installed, saved a 300x200 image, and the session resolved.
C24_Witness ==
    /\ ScrotSucceeded
    /\ ~tools.slop
    /\ spc = "finished"
    /\ selOut[1].rect = Some(QRectXYWH(0, 0, 300, 200))

(***************************************************************************)
(* Further properties of the overlay.                                      *)
(***************************************************************************)
\* This step delivers an event to the overlay.
OverlayEvent == ovEvents' = ovEvents + 1

\* C25: Escape resolves an unresolved overlay session to Cancelled, before a
\* press and during a drag alike; Return or Enter resolves it to the current
\* rectangle when there is one (_sel is not null) and changes nothing when
\* there is none; once the session has resolved, no event of any kind
\* produces another result.
C25_EscapeEnterAndNoSecondResult ==
    [][OverlayEvent =>
          /\ ov.done => selOut' = selOut
          /\ (~ov.done /\ lastEv'[1].type = "key") =>
                LET k == lastEv'[1].button
                IN  /\ k = "Escape" =>
                          /\ selOut' = Append(selOut, Result("cancelled", None))
                          /\ ov'.done
                    /\ (k \in {"Return", "Enter"} /\ ~IsNull(ov.sel)) =>
                          /\ selOut' = Append(selOut, Result("area_selected",
                                                             Some(Normalized(ov.sel))))
                          /\ ov'.done
                    /\ (k \in {"Return", "Enter"} /\ IsNull(ov.sel)) =>
                          UNCHANGED <<selOut, ov>>
                    /\ k \notin {"Escape", "Return", "Enter"} =>
                          UNCHANGED <<selOut, ov>>]_vars

\* A press, then Escape during the drag: the session is Cancelled.
C25_Witness ==
    /\ spc = "overlay"
    /\ ovEvents = 2
    /\ ov.drag
    /\ ov.done
    /\ lastEv = Some([type |-> "key", pos |-> Pt(0, 0), button |-> "Escape"])
    /\ selOut = <<Result("cancelled", None)>>

\* C26: every rectangle delivered with area_selected, by the native tools or
\* by the overlay, on release or on Enter, has width > 0 and height > 0.
C26_ResolvedRectIsPositive ==
    \A i \in 1..Len(selOut) :
        selOut[i].kind = "area_selected" =>
            Width(selOut[i].rect[1]) > 0 /\ Height(selOut[i].rect[1]) > 0

(***************************************************************************)
(* Further properties of the audio source resolver.                        *)
(***************************************************************************)
\* pw-cli exited with 0 and printed something.
ModernServerAnswers ==
    /\ audEnv.pwcli # None
    /\ audEnv.pwcli[1].rc = 0
    /\ audEnv.pwcli[1].out

\* C27: when pw-cli answers, the call returns from its first step, without
\* running the later probes, with the driver "pulse" and as source the first
\* non-monitor source, else the first source, else "default" when pactl
\* lists nothing or is unavailable.
C27_ModernServerDecides ==
    ModernServerAnswers =>
        /\ apc \in {"step1", "returned"}
        /\ apc = "returned" =>
              /\ audLog = <<"pw-cli", "pactl">>
              /\ audResult[1][1] = "pulse"
              /\ LET r == audEnv.pactl1
                     names == IF r # None /\ r[1].rc = 0
                              THEN SourceNames(r[1].out) ELSE <<>>
                     plain == SelectSeq(names, LAMBDA n : ~IsMonitorName(n))
                 IN  audResult[1][2] =
                        IF plain # <<>> THEN Join(plain[1])
                        ELSE IF names # <<>> /\ IsMonitorName(names[1])
                             THEN Join(names[1])
                             ELSE "default"

\* The call returned from its fourth step: arecord listed a device.
ReturnedFromAlsa ==
    /\ apc = "returned"
    /\ audLog[Len(audLog)] = "arecord"

\* C28: when arecord lists at least one capture device, the call returns the
\* driver "alsa" with the address of the first device listed.
C28_FirstListedDevice ==
    \A devs \in ArecordDeviceLists :
        (/\ ReturnedFromAlsa
         /\ devs # <<>>
         /\ audEnv.arecord = Some([rc |-> 0, out |-> ArecordStdout(devs)]))
            => audResult[1] = <<"alsa", "hw:" \o Str(devs[1].card) \o ","
                                          \o Str(devs[1].device)>>

\* What each probe step needs to produce a result, from the outcomes alone.
Step1Produces == ModernServerAnswers /\ audEnv.pactl1 # None

Step2Produces ==
    /\ audEnv.pactl2 # None
    /\ audEnv.pactl2[1].rc = 0
    /\ Strip(audEnv.pactl2[1].out) # <<>>

Step3Produces == audEnv.pacheck # None /\ audEnv.pacheck[1].rc = 0

Step4Produces ==
    /\ audEnv.arecord # None
    /\ audEnv.arecord[1].rc = 0
    /\ \E devs \in ArecordDeviceLists :
          devs # <<>> /\ audEnv.arecord[1].out = ArecordStdout(devs)

IsPrefix(p, q) == Len(p) <= Len(q) /\ SubSeq(q, 1, Len(p)) = p

\* C29: the probes run in the order pw-cli (with pactl when it answers),
\* pactl, pulseaudio --check, arecord, and the call returns at the first step
\* that produces a result: "alsa" is returned only when none of the three
\* server steps produced one, and the last-resort ("pulse", "default") only
\* when none of the four steps did.
C29_OrderedFirstSuccessWins ==
    /\ \/ IsPrefix(audLog, <<"pw-cli", "pactl", "pulseaudio", "arecord">>)
       \/ IsPrefix(audLog, <<"pw-cli", "pactl", "pactl", "pulseaudio", "arecord">>)
    /\ apc = "returned" =>
          LET last == IF audLog = <<>> THEN "" ELSE audLog[Len(audLog)]
              n == Len(audLog)
          IN  /\ Step1Produces <=> (audLog = <<"pw-cli", "pactl">> /\ ModernServerAnswers)
              /\ (~Step1Produces /\ Step2Produces) <=>
                    (last = "pactl" /\ ~(n = 2 /\ ModernServerAnswers))
              /\ (~Step1Produces /\ ~Step2Produces /\ Step3Produces) <=>
                    last = "pulseaudio"
              /\ audResult[1][1] = "alsa" <=>
                    (~Step1Produces /\ ~Step2Produces /\ ~Step3Produces /\ Step4Produces)
              /\ (~Step1Produces /\ ~Step2Produces /\ ~Step3Produces /\ ~Step4Produces)
                    => audResult[1] = <<"pulse", "default">>
              /\ audResult[1][1] = "alsa" => last = "arecord"

\* pw-cli raised, pactl printed nothing, no daemon: arecord's card is returned.
C29_Witness ==
    /\ apc = "returned"
    /\ audLog = <<"pw-cli", "pactl", "pulseaudio", "arecord">>
    /\ audEnv.pactl2 = Some([rc |-> 0, out |-> <<"\n">>])
    /\ audEnv.pacheck = Some([rc |-> 1])
    /\ audResult = Some(<<"alsa", "hw:0,0">>)

\* The rectangle run() captures (lines 644-649) and a length rounded down to
\* even.
EffectiveRect == IF AreaGiven(cfg.area) THEN cfg.area[1] ELSE env.screen

Even(n) == 2 * (n \div 2)

\* C31: a built command has exactly one of -filter_complex and -vf: the
\* filter graph exactly when the /dev/video0 input was appended, otherwise
\* "scale=W:H" with the even capture size; a webcam request without the
\* device node adds no webcam input and reports no error.
C31_OneFilterKind ==
    (cmd # <<>>) =>
        LET graphs == FlagPositions(cmd, "-filter_complex")
            scales == FlagPositions(cmd, "-vf")
            camIn == \E i \in FlagPositions(cmd, "-i") : cmd[i + 1] = "/dev/video0"
        IN  /\ Cardinality(graphs) + Cardinality(scales) = 1
            /\ (graphs # {}) <=> camIn
            /\ (scales # {}) =>
                  ArgAfter(cmd, "-vf") =
                      "scale=" \o Str(Even(Width(EffectiveRect))) \o ":"
                          \o Str(Even(Height(EffectiveRect)))
            /\ (cfg.webcam /\ ~env.camExists) =>
                  (/\ ~camIn /\ scales # {} /\ ~HasArg(cmd, "v4l2")
                   /\ (wpc = "spawn" => emitted = <<>>))
            /\ camIn <=> (cfg.webcam /\ env.camExists)

\* A webcam request without /dev/video0: the command was built with the
\* simple scale and the encoder was spawned.
C31_Witness ==
    /\ cfg.webcam /\ ~env.camExists
    /\ HasArg(cmd, "-vf")
    /\ proc # None
    /\ emitted = <<[sig |-> "sig_status", arg |-> "RECORDING"]>>

\* The audio inputs of the command: the -i flags whose format is pulse or alsa.
AudioInputs(c) == {i \in FlagPositions(c, "-i") : i > 2 /\ c[i - 1] \in {"pulse", "alsa"}}

\* The stereo codec settings of lines 710-711, in the command from position i.
AudioCodecAt(c, i) ==
    /\ i + 7 <= Len(c)
    /\ SubSeq(c, i, i + 7) = <<"-c:a", "aac", "-b:a", "192k", "-ac", "2", "-ar", "44100">>

\* C32: a built command has an audio input and the stereo codec settings
\* exactly when audio is requested; the input has the format of the driver
\* this session's probe resolved, names the source it resolved and is input
\* 1 (compared when the command has just been built); the probe has run
\* once in a session with audio and not at all in one without.
C32_AudioInputIffRequested ==
    (cmd # <<>>) =>
        LET auds == AudioInputs(cmd)
            codecs == FlagPositions(cmd, "-c:a")
            resolved == detect_audio_source(env.audio)
        IN  /\ (auds # {}) <=> cfg.audio
            /\ (codecs # {}) <=> cfg.audio
            /\ \A i \in codecs : AudioCodecAt(cmd, i)
            /\ Cardinality(auds) <= 1 /\ Cardinality(codecs) <= 1
            /\ \A i \in auds :
                  /\ InputIndex(cmd, i) = 1
                  /\ cmd[i - 2] = "-f"
                  /\ (wpc = "spawn") =>
                        (/\ cmd[i - 1] = (IF resolved[1] = "pulse" THEN "pulse" ELSE "alsa")
                         /\ cmd[i + 1] = resolved[2])
            /\ probeRuns = (IF cfg.audio THEN 1 ELSE 0)

\* A session with audio where the probe resolved the ALSA device: the
\* encoder was spawned with the alsa input.
C32_Witness ==
    /\ cfg.audio
    /\ proc # None
    /\ probeRuns = 1
    /\ \E i \in AudioInputs(cmd) : cmd[i - 1] = "alsa" /\ cmd[i + 1] = "hw:0,0"
    /\ HasArg(cmd, "-c:a")

\* C33: when cfg holds a non-null region and the encoder command is built,
\* the capture size is the region's width and height, each rounded down to
\* even and at least 2, and the input's offset is the region's top-left.
C33_RegionSizeAndOffset ==
    (cfg.area # None /\ ~IsNull(cfg.area[1]) /\ cmd # <<>>) =>
        LET r == cfg.area[1]
        IN  /\ Even(Width(r)) >= 2 /\ Even(Height(r)) >= 2
            /\ ArgAfter(cmd, "-s") = Str(Even(Width(r))) \o "x" \o Str(Even(Height(r)))
            /\ ArgAfter(cmd, "-i") = env.display \o "+" \o Str(r.x1) \o "," \o Str(r.y1)

\* run() has reported the failure of a child that exited.
FailedAfterExit ==
    /\ wpc = "done" /\ returncode # None
    /\ LastEmitted.sig = "sig_error"

\* C34: the failure message of a session whose child exited is the line with
\* the exit code followed by the last bytes the child wrote to its stderr
\* (the last 600, or all of them when it wrote fewer).
C34_MessageHasStderrTail ==
    FailedAfterExit =>
        LastEmitted.arg =
            "Recording failed (exit " \o Str(returncode[1]) \o ").\n"
                \o Decode(LastBytes(childErr, TailLen))

\* C35: RECORDING is emitted at most once and only in a session whose Popen
\* call returned; a terminal notification is the last thing a session emits,
\* so RECORDING comes before it, and in a session with a child it has been
\* emitted by then.
C35_StatusBetweenSpawnAndTerminal ==
    /\ Cardinality(Emitted("sig_status")) <= 1
    /\ \A i \in Emitted("sig_status") :
          /\ emitted[i].arg = "RECORDING"
          /\ proc # None /\ popenExc = None /\ spawns = 1
    /\ \A i \in 1..Len(emitted) :
          IsTerminal(emitted[i]) =>
              /\ i = Len(emitted)
              /\ (proc # None) => Emitted("sig_status") = {i - 1}

\* A stopped session that has emitted RECORDING and then sig_done.
C35_Witness ==
    /\ wpc = "done" /\ stops > 0
    /\ Len(emitted) = 2
    /\ emitted[1] = [sig |-> "sig_status", arg |-> "RECORDING"]
    /\ emitted[2].sig = "sig_done"

\* C36: once run() has returned, the session has emitted exactly one of
\* sig_done and sig_error, once; this on each path through run(): the size
\* check, a Popen that raises FileNotFoundError or another exception, a child
\* that exited with or without stop().
C36_ExactlyOneTerminal ==
    (wpc = "done") =>
        /\ Terminals = 1
        /\ Cardinality(Emitted("sig_done")) + Cardinality(Emitted("sig_error")) = 1
        /\ IsTerminal(LastEmitted)
        /\ (cmd = <<>>) => LastEmitted.sig = "sig_error"
        /\ (popenExc # None) => LastEmitted.sig = "sig_error"

\* Sessions that returned on each path.
C36_PathValidation == wpc = "done" /\ cmd = <<>>

C36_PathSpawnFailure == wpc = "done" /\ popenExc = Some("FileNotFoundError")

C36_PathException == wpc = "done" /\ popenExc = Some("PermissionError")

C36_PathExitNoStop == wpc = "done" /\ returncode # None /\ stops = 0

C36_PathExitAfterStop == wpc = "done" /\ returncode # None /\ stops = 2 /\ termSignals > 0

\* A session that was stopped twice, whose child ended on SIGTERM, after
\* run() returned.
C36_Witness == C36_PathExitAfterStop /\ Terminals = 1

\* C37: when the one stop() call of a session has returned and the child is
\* running, the child has been told to stop: the quit command was written
\* to its stdin or SIGTERM was sent.
C37_StopReachesChild ==
    (stops = 1 /\ upc = "idle" /\ child = "running") =>
        (quitWrites > 0 \/ termSignals > 0)

\* C38: when sig_done has been emitted, the output file exists (the file is
\* not removed during a session, so it exists at the emission).
C38_FinishedFileExists ==
    (Emitted("sig_done") # {}) => fileExists

\* The stderr pipe is full: the child cannot write on until it is read.
PipeFull == BytesLen(childErr) - BytesLen(stderrBytes) >= PipeCapacity

\* C39: the child is never blocked writing to a full stderr pipe.
C39_ChildNeverBlockedOnStderr == ~(child = "blocked" /\ PipeFull)

(***************************************************************************)
(* The main window's capture modes: the mode buttons of both tabs, the     *)
(* selection session they open (the window is hidden while it runs, so no  *)
(* button is clicked then) and the four handlers of its result.            *)
(***************************************************************************)
\* The rectangles a selection session delivers: from slop, from scrot (at
\* the origin), from the overlay on release, and from the overlay on Enter
\* after a move one pixel up (width 1, height 0).
SelectionRects ==
    {QRectXYWH(100, 100, 201, 151), QRectXYWH(0, 0, 640, 480),
     QRectXYWH(20, 30, 11, 11), QRectXYWH(99, 100, 1, 0)}

\* "not rect" for None or a QRect.
Falsy(rect) == rect = None \/ ~IsValid(rect[1])

\* Lines 1156-1162.
_ss_set_mode(mode) ==
    /\ ss_mode' = mode
    /\ ss_area_rect' = IF mode # "area" THEN None ELSE ss_area_rect

\* Lines 1349-1354.
_rec_set_mode(mode) ==
    /\ rec_mode_sel' = mode
    /\ rec_area_rect' = IF mode = "full" THEN None ELSE rec_area_rect

\* Lines 1055 and 1057: the Full Screen and Window buttons of the screenshot tab.
SsModeClicked ==
    /\ selTarget = None
    /\ \E mode \in {"full", "window"} : _ss_set_mode(mode)
    /\ lastHandler' = "_ss_set_mode"
    /\ UNCHANGED <<rec_area_rect, rec_mode_sel, selTarget>>
    /\ UNCHANGED nonModeVars

\* Line 1193: the Full Screen button of the recording tab.
RecFullClicked ==
    /\ selTarget = None
    /\ _rec_set_mode("full")
    /\ lastHandler' = "_rec_set_mode"
    /\ UNCHANGED <<ss_area_rect, ss_mode, selTarget>>
    /\ UNCHANGED nonModeVars

\* Lines 1167-1169, 1359-1361 and 1684-1698: a Select Area button opens the
\* selection session for its target; no mode or rectangle changes.
_open_selector ==
    /\ selTarget = None
    /\ \E target \in {"screenshot", "recording"} : selTarget' = Some(target)
    /\ lastHandler' = "_open_selector"
    /\ UNCHANGED <<ss_area_rect, ss_mode, rec_area_rect, rec_mode_sel>>
    /\ UNCHANGED nonModeVars

\* Lines 1700-1714.
_on_ss_area_done ==
    /\ selTarget = Some("screenshot")
    /\ \E rect \in SelectionRects : ss_area_rect' = Some(rect)
    /\ ss_mode' = "area"
    /\ selTarget' = None
    /\ lastHandler' = "_on_ss_area_done"
    /\ UNCHANGED <<rec_area_rect, rec_mode_sel>>
    /\ UNCHANGED nonModeVars

\* Lines 1716-1721.
_on_ss_area_cancel ==
    /\ selTarget = Some("screenshot")
    /\ IF Falsy(ss_area_rect) THEN _ss_set_mode("full")
                              ELSE UNCHANGED <<ss_area_rect, ss_mode>>
    /\ selTarget' = None
    /\ lastHandler' = "_on_ss_area_cancel"
    /\ UNCHANGED <<rec_area_rect, rec_mode_sel>>
    /\ UNCHANGED nonModeVars

\* Lines 1723-1737.
_on_rec_area_done ==
    /\ selTarget = Some("recording")
    /\ \E rect \in SelectionRects : rec_area_rect' = Some(rect)
    /\ rec_mode_sel' = "area"
    /\ selTarget' = None
    /\ lastHandler' = "_on_rec_area_done"
    /\ UNCHANGED <<ss_area_rect, ss_mode>>
    /\ UNCHANGED nonModeVars

\* Lines 1739-1744.
_on_rec_area_cancel ==
    /\ selTarget = Some("recording")
    /\ IF Falsy(rec_area_rect) THEN _rec_set_mode("full")
                               ELSE UNCHANGED <<rec_area_rect, rec_mode_sel>>
    /\ selTarget' = None
    /\ lastHandler' = "_on_rec_area_cancel"
    /\ UNCHANGED <<ss_area_rect, ss_mode>>
    /\ UNCHANGED nonModeVars

InitMode ==
    /\ RecorderParked
    /\ SelectorParked
    /\ AudioParked
    /\ UiParked
    /\ ModeParked

NextMode ==
    \/ SsModeClicked \/ RecFullClicked \/ _open_selector
    \/ _on_ss_area_done \/ _on_ss_area_cancel
    \/ _on_rec_area_done \/ _on_rec_area_cancel

\* The main window over any sequence of mode clicks and selection sessions.
SpecMode == InitMode /\ [][NextMode]_vars

\* C40: after every step the recording mode is "area" exactly when a
\* recording rectangle is stored; a cancelled recording selection leaves a
\* stored rectangle and the mode as they were, and sets the mode to "full"
\* when none was stored; a result for the recording target leaves the
\* screenshot mode and rectangle as they were.
C40_RecordingModeAndArea ==
    [][/\ (rec_mode_sel' = "area") <=> (rec_area_rect' # None)
       /\ (selTarget = Some("recording") /\ lastHandler' = "_on_rec_area_cancel") =>
             IF rec_area_rect # None
             THEN UNCHANGED <<rec_area_rect, rec_mode_sel>>
             ELSE rec_mode_sel' = "full" /\ rec_area_rect' = None
       /\ (selTarget = Some("recording") /\ selTarget' = None) =>
             UNCHANGED <<ss_area_rect, ss_mode>>]_vars

====
